---- MODULE Spec2Model ----
(***************************************************************************)
(* A model of the Agentforce -> NGA converter (src/WASM/src).              *)
(*                                                                         *)
(* Text is a sequence of one-character strings, so that sanitising,        *)
(* cleaning, substring search and the regular-expression rewrites are      *)
(* computed character by character as the Rust code computes them.         *)
(* Option<T> is a record: None, or Some(x) = [some |-> TRUE, v |-> x].     *)
(* HashMap<String, T> is a function whose DOMAIN is the key set; the       *)
(* order a map is iterated in is chosen per call (std's RandomState).      *)
(***************************************************************************)
EXTENDS Integers, Sequences, FiniteSets, TLC

VARIABLES
    input_json,   \* the input handed to convert_agent (parsed shape or malformed)
    rules_json,   \* the rules text handed to convert_agent
    result,       \* what the last convert_agent call returned
    previous,     \* what the call before it returned
    iter,         \* the iteration order the last call's property maps had
    calls,        \* number of convert_agent calls made
    text,         \* the text handed to the placeholder rewriter / detector
    before,       \* the text before the last rewriting pass
    passes,       \* rewriting passes applied to text
    detected,     \* result of the last detection on text, or None
    arg,          \* the argument of the next call of a function checked alone
    rets,         \* the calls of it made so far: [arg, ret] records, in order
    threads,      \* the convert_agent calls in progress side by side, per caller
    statics,      \* the process's Lazy<Regex> cells: content and initialisations
    hash_keys     \* HashMaps created so far (std's RandomState key counter)

vars == <<input_json, rules_json, result, previous, iter, calls,
          text, before, passes, detected, arg, rets, threads, statics, hash_keys>>

\* no calls run side by side; the cells and the key counter are not followed
NoThreads ==
    /\ threads = <<>>
    /\ statics = <<>>
    /\ hash_keys = 0

-----------------------------------------------------------------------------
(* Bounds of the model *)

MaxPlugins == 2
MaxTopics == 1
MaxFuncs == 2
MaxProps == 3
MaxCalls == 2
MaxTextLen == 6
MaxPasses == 2
MaxRuleTextLen == 4
MaxDepth == 2
MaxIdLen == 4
MaxThreads == 2

-----------------------------------------------------------------------------
(* Option<T> *)

None == [some |-> FALSE]
Some(x) == [some |-> TRUE, v |-> x]
UnwrapOr(o, d) == IF o.some THEN o.v ELSE d
OrElse(o1, o2) == IF o1.some THEN o1 ELSE o2

-----------------------------------------------------------------------------
(* Characters and strings *)

Lowers == <<"a", "b", "c", "d", "e", "f", "g", "h", "i", "j", "k", "l", "m",
            "n", "o", "p", "q", "r", "s", "t", "u", "v", "w", "x", "y", "z">>
Uppers == <<"A", "B", "C", "D", "E", "F", "G", "H", "I", "J", "K", "L", "M",
            "N", "O", "P", "Q", "R", "S", "T", "U", "V", "W", "X", "Y", "Z">>
Digits == {"0", "1", "2", "3", "4", "5", "6", "7", "8", "9"}

\* the characters of the model in code-point order (str::cmp is bytewise)
AsciiOrder ==
    <<" ", "!", "$", "-", ".", "/",
      "0", "1", "2", "3", "4", "5", "6", "7", "8", "9", ":", "@">>
    \o Uppers \o <<"[", "]", "_">> \o Lowers \o <<"{", "}">>

Range(s) == {s[i] : i \in DOMAIN s}

IsAlphanumeric(c) == c \in Range(Lowers) \cup Range(Uppers) \cup Digits

ToLowerChar(c) ==
    IF \E i \in DOMAIN Uppers : Uppers[i] = c
    THEN Lowers[CHOOSE i \in DOMAIN Uppers : Uppers[i] = c]
    ELSE c

ToLowercase(s) == [i \in 1..Len(s) |-> ToLowerChar(s[i])]

StartsWith(s, p) == Len(s) >= Len(p) /\ SubSeq(s, 1, Len(p)) = p

Contains(s, p) ==
    \E i \in 1..(Len(s) - Len(p) + 1) : SubSeq(s, i, i + Len(p) - 1) = p

RECURSIVE Replace(_, _, _)
\* str::replace: every non-overlapping occurrence of p, left to right
Replace(s, p, r) ==
    IF s = <<>> THEN <<>>
    ELSE IF p # <<>> /\ StartsWith(s, p)
         THEN r \o Replace(SubSeq(s, Len(p) + 1, Len(s)), p, r)
         ELSE <<Head(s)>> \o Replace(Tail(s), p, r)

RECURSIVE Split(_, _)
\* str::split(c): the segments between occurrences of c, empty ones included
Split(s, c) ==
    IF \A i \in DOMAIN s : s[i] # c THEN <<s>>
    ELSE LET k == CHOOSE i \in DOMAIN s :
                      s[i] = c /\ \A j \in 1..(i - 1) : s[j] # c
         IN <<SubSeq(s, 1, k - 1)>> \o Split(SubSeq(s, k + 1, Len(s)), c)

RECURSIVE Join(_, _)
Join(segs, sep) ==
    IF segs = <<>> THEN <<>>
    ELSE IF Len(segs) = 1 THEN segs[1]
    ELSE segs[1] \o sep \o Join(Tail(segs), sep)

NonEmpty(seg) == seg # <<>>
KeepNameChar(c) == IsAlphanumeric(c) \/ c = "_"

Code(c) == CHOOSE i \in DOMAIN AsciiOrder : AsciiOrder[i] = c

RECURSIVE StrLess(_, _)
\* the order Vec<&String>::sort puts keys in
StrLess(a, b) ==
    IF b = <<>> THEN FALSE
    ELSE IF a = <<>> THEN TRUE
    ELSE IF a[1] # b[1] THEN Code(a[1]) < Code(b[1])
    ELSE StrLess(Tail(a), Tail(b))

RECURSIVE SortedKeys(_)
SortedKeys(S) ==
    IF S = {} THEN <<>>
    ELSE LET m == CHOOSE x \in S : \A y \in S \ {x} : StrLess(x, y)
         IN <<m>> \o SortedKeys(S \ {m})

\* HashMap::insert
MapPut(m, k, x) == [y \in DOMAIN m \cup {k} |-> IF y = k THEN x ELSE m[y]]
EmptyMap == <<>>

-----------------------------------------------------------------------------
(* helpers.rs *)

SanitizeCommon(name) ==
    LET cleaned == [i \in 1..Len(name) |->
                        IF KeepNameChar(name[i]) THEN name[i] ELSE "_"]
    IN Join(SelectSeq(Split(cleaned, "_"), NonEmpty), <<"_">>)

sanitize_topic_name(name) ==
    ToLowercase(SanitizeCommon(UnwrapOr(name, <<"u", "n", "n", "a", "m", "e", "d">>)))

sanitize_action_name(name) ==
    SanitizeCommon(UnwrapOr(name, <<"a", "c", "t", "i", "o", "n">>))

-----------------------------------------------------------------------------
(* variable_processor.rs: the regular expressions                           *)
(*                                                                         *)
(* Every pattern of the file has the shape  lit ( [^X}] [^}]* ) \}  : a    *)
(* literal opening, a captured name whose first character is outside       *)
(* excl and is not "}", running to the first "}".  A compiled pattern is   *)
(* [lit, excl]; a pattern source is [valid, lit, excl], Regex::new         *)
(* succeeding exactly on the valid ones.                                   *)

VAR_PATTERN_1 == [lit |-> <<"{", "!", "$">>, excl |-> {}]
VAR_PATTERN_2 == [lit |-> <<"{", "$", "!">>, excl |-> {}]
VAR_PATTERN_3 == [lit |-> <<"{", "$">>, excl |-> {"!"}]
VAR_PATTERN_4 == [lit |-> <<"{", "!">>, excl |-> {"@"}]

\* the replacement text "{!@variables.$1}" of the four built-in rewrites
CanonicalReplacement ==
    <<"{", "!", "@", "v", "a", "r", "i", "a", "b", "l", "e", "s", ".", "$", "1", "}">>

RegexNew(src) ==
    IF src.valid THEN Some([lit |-> src.lit, excl |-> src.excl]) ELSE None

\* index of the "}" closing the match of re that starts at i, or 0
MatchEnd(re, s, i) ==
    LET g == i + Len(re.lit)
    IN IF /\ g <= Len(s)
          /\ SubSeq(s, i, g - 1) = re.lit
          /\ s[g] \notin (re.excl \cup {"}"})
          /\ \E j \in (g + 1)..Len(s) : s[j] = "}"
       THEN CHOOSE j \in (g + 1)..Len(s) :
                s[j] = "}" /\ \A k \in (g + 1)..(j - 1) : s[k] # "}"
       ELSE 0

IsMatch(re, s) == \E i \in 1..Len(s) : MatchEnd(re, s, i) > 0

IsGroupNameChar(c) == IsAlphanumeric(c) \/ c = "_"

RECURSIVE Expand(_, _, _)
\* Replacer for &str: $1 is the captured name, $0 the whole match, another
\* $name an empty string, $$ a dollar sign
Expand(tpl, whole, group) ==
    IF tpl = <<>> THEN <<>>
    ELSE IF Head(tpl) # "$" THEN <<Head(tpl)>> \o Expand(Tail(tpl), whole, group)
    ELSE LET rest == Tail(tpl)
             n == IF \A i \in DOMAIN rest : IsGroupNameChar(rest[i])
                  THEN Len(rest)
                  ELSE (CHOOSE i \in DOMAIN rest :
                           /\ ~IsGroupNameChar(rest[i])
                           /\ \A j \in 1..(i - 1) : IsGroupNameChar(rest[j])) - 1
             name == SubSeq(rest, 1, n)
             after == SubSeq(rest, n + 1, Len(rest))
         IN IF n = 0
            THEN IF rest # <<>> /\ Head(rest) = "$"
                 THEN <<"$">> \o Expand(Tail(rest), whole, group)
                 ELSE <<"$">> \o Expand(rest, whole, group)
            ELSE (IF name = <<"1">> THEN group
                  ELSE IF name = <<"0">> THEN whole ELSE <<>>)
                 \o Expand(after, whole, group)

RECURSIVE ReplaceAllFrom(_, _, _, _)
ReplaceAllFrom(re, tpl, s, i) ==
    IF i > Len(s) THEN <<>>
    ELSE LET j == MatchEnd(re, s, i)
         IN IF j > 0
            THEN Expand(tpl, SubSeq(s, i, j),
                        SubSeq(s, i + Len(re.lit), j - 1))
                 \o ReplaceAllFrom(re, tpl, s, j + 1)
            ELSE <<s[i]>> \o ReplaceAllFrom(re, tpl, s, i + 1)

\* Regex::replace_all: the leftmost non-overlapping matches, each replaced
\* once; replaced text is not scanned again
ReplaceAll(re, tpl, s) == ReplaceAllFrom(re, tpl, s, 1)

\* DOLLAR_VAR_PATTERN  \{[!]?\$[!]?[^}]+\}|\{![^@}][^}]*\}
DollarVarMatchAt(s, i) ==
    \/ /\ i <= Len(s) /\ s[i] = "{"
       /\ \E a \in {0, 1}, b \in {0, 1} :
            LET d == i + 1 + a
                g == d + 1 + b
            IN /\ g <= Len(s)
               /\ (a = 1 => s[i + 1] = "!")
               /\ s[d] = "$"
               /\ (b = 1 => s[d + 1] = "!")
               /\ s[g] # "}"
               /\ \E j \in (g + 1)..Len(s) : s[j] = "}"
    \/ MatchEnd(VAR_PATTERN_4, s, i) > 0

DOLLAR_VAR_PATTERN_is_match(s) == \E i \in 1..Len(s) : DollarVarMatchAt(s, i)

-----------------------------------------------------------------------------
(* variable_processor.rs: detection and rewriting *)

check_for_dollar_variables(input, rules) ==
    IF rules.some /\ rules.v.variable_conversion.some
    THEN LET var_conv == rules.v.variable_conversion.v
         IN IF var_conv.enabled = Some(FALSE) THEN FALSE
            ELSE IF var_conv.patterns.some
            THEN \E k \in DOMAIN var_conv.patterns.v :
                    LET re == RegexNew(var_conv.patterns.v[k].pattern)
                    IN re.some /\ IsMatch(re.v, input)
            ELSE DOLLAR_VAR_PATTERN_is_match(input)
    ELSE DOLLAR_VAR_PATTERN_is_match(input)

RECURSIVE ApplyCustomPatterns(_, _)
ApplyCustomPatterns(patterns, s) ==
    IF patterns = <<>> THEN s
    ELSE LET re == RegexNew(Head(patterns).pattern)
         IN ApplyCustomPatterns(Tail(patterns),
                IF re.some THEN ReplaceAll(re.v, Head(patterns).replacement, s)
                ELSE s)

BuiltinOrder == <<VAR_PATTERN_1, VAR_PATTERN_2, VAR_PATTERN_3, VAR_PATTERN_4>>

RECURSIVE ApplyBuiltinPatterns(_, _)
ApplyBuiltinPatterns(res, s) ==
    IF res = <<>> THEN s
    ELSE ApplyBuiltinPatterns(Tail(res), ReplaceAll(Head(res), CanonicalReplacement, s))

convert_variables_in_text(t, rules) ==
    IF ~t.some THEN <<>>
    ELSE IF rules.some /\ rules.v.variable_conversion.some
    THEN LET var_conv == rules.v.variable_conversion.v
         IN IF var_conv.enabled = Some(FALSE) THEN t.v
            ELSE IF var_conv.patterns.some
            THEN ApplyCustomPatterns(var_conv.patterns.v, t.v)
            ELSE ApplyBuiltinPatterns(BuiltinOrder, t.v)
    ELSE ApplyBuiltinPatterns(BuiltinOrder, t.v)

-----------------------------------------------------------------------------
(* lib.rs: the rules text.  serde_json is outside the converter: a rules   *)
(* text is empty, is text serde_json rejects, or parses into a document.   *)

RulesDoc(vc, tpl, tm) ==
    [variable_conversion |-> vc, templates |-> tpl, type_mappings |-> tm]

EmptyRulesText == [kind |-> "empty"]
MalformedRulesText == [kind |-> "malformed"]
RulesText(doc) == [kind |-> "json", doc |-> doc]

parse_rules(rules_text) ==
    IF rules_text.kind = "empty" THEN None
    ELSE IF rules_text.kind = "json" THEN Some(rules_text.doc)
    ELSE None

-----------------------------------------------------------------------------
(* converter.rs: type mapping.  A fixed phrase of the code none of whose    *)
(* characters the code ever inspects is written as a single element.       *)

TString == <<"s", "t", "r", "i", "n", "g">>
TNumber == <<"n", "u", "m", "b", "e", "r">>
TObject == <<"o", "b", "j", "e", "c", "t">>
TArray == <<"a", "r", "r", "a", "y">>
TInteger == <<"i", "n", "t", "e", "g", "e", "r">>
TBoolean == <<"b", "o", "o", "l", "e", "a", "n">>
ItemTypeSlot == <<"{", "i", "t", "e", "m", "T", "y", "p", "e", "}">>
ListFormat == <<"l", "i", "s", "t", "[">> \o ItemTypeSlot \o <<"]">>

MapGet(m, k) == IF k \in DOMAIN m THEN Some(m[k]) ELSE None

DefaultPrimitiveMap ==
    (TString :> TString) @@ (TNumber :> TNumber)
    @@ (TInteger :> TNumber) @@ (TBoolean :> TBoolean)
DefaultComplexMap == (TObject :> TObject) @@ (TArray :> ListFormat)

TypeMappingsOf(rules) ==
    IF rules.some THEN rules.v.type_mappings ELSE None

\* a mapping that looks at no item definition and at no rules
MapPropertyTypeFlat(json_type_opt, prop, rules) ==
    LET json_type == UnwrapOr(json_type_opt, TObject)
    IN IF json_type = TArray
       THEN <<"l", "i", "s", "t", "[">> \o TObject \o <<"]">>
       ELSE UnwrapOr(OrElse(MapGet(DefaultPrimitiveMap, json_type),
                            MapGet(DefaultComplexMap, json_type)),
                     TObject)

RECURSIVE map_property_type(_, _, _)
\* a mapping that wraps an array's item type in list[...] whatever template
\* the rules give
MapPropertyTypeListOnly(json_type_opt, prop, rules) ==
    LET json_type == UnwrapOr(json_type_opt, TObject)
        tm == TypeMappingsOf(rules)
        primitive_map == IF tm.some /\ tm.v.primitive.some
                         THEN tm.v.primitive.v ELSE DefaultPrimitiveMap
        complex_map == IF tm.some /\ tm.v.complex.some
                       THEN tm.v.complex.v ELSE DefaultComplexMap
        default_type == IF tm.some /\ tm.v.default_type.some
                        THEN tm.v.default_type.v ELSE TObject
    IN IF json_type = TArray
       THEN <<"l", "i", "s", "t", "[">>
            \o (IF prop.items.some
                THEN map_property_type(Some(UnwrapOr(prop.items.v.prop_type, TObject)),
                                       prop.items.v, rules)
                ELSE TObject)
            \o <<"]">>
       ELSE UnwrapOr(OrElse(MapGet(primitive_map, json_type),
                            MapGet(complex_map, json_type)),
                     default_type)

map_property_type(json_type_opt, prop, rules) ==
    LET json_type == UnwrapOr(json_type_opt, TObject)
        tm == TypeMappingsOf(rules)
        primitive_map == IF tm.some /\ tm.v.primitive.some
                         THEN tm.v.primitive.v ELSE DefaultPrimitiveMap
        complex_map == IF tm.some /\ tm.v.complex.some
                       THEN tm.v.complex.v ELSE DefaultComplexMap
        default_type == IF tm.some /\ tm.v.default_type.some
                        THEN tm.v.default_type.v ELSE TObject
    IN IF json_type = TArray
       THEN IF prop.items.some
            THEN LET items == prop.items.v
                     item_type == UnwrapOr(items.prop_type, TObject)
                     mapped_item_type == map_property_type(Some(item_type), items, rules)
                     list_format == UnwrapOr(MapGet(complex_map, TArray), ListFormat)
                 IN Replace(list_format, ItemTypeSlot, mapped_item_type)
            ELSE <<"l", "i", "s", "t", "[">> \o TObject \o <<"]">>
       ELSE UnwrapOr(OrElse(MapGet(primitive_map, json_type),
                            MapGet(complex_map, json_type)),
                     default_type)

-----------------------------------------------------------------------------
(* converter.rs: the variables table *)

InputPrefix == <<"I", "n", "p", "u", "t", ":">>
OutputPrefix == <<"O", "u", "t", "p", "u", "t", ":">>
MutablePrefix == <<"m", "u", "t", "a", "b", "l", "e", " ">>
LinkedPrefix == <<"l", "i", "n", "k", "e", "d", " ">>
ActionSourcePrefix == <<"@", "a", "c", "t", "i", "o", "n", ".">>

\* the name a raw property name gets in the variables table
CleanVariableName(prop_name, prefix) ==
    SelectSeq(Replace(prop_name, prefix, <<>>), KeepNameChar)

PropertiesOf(io_type) ==
    IF io_type.some /\ io_type.v.properties.some
    THEN io_type.v.properties.v ELSE EmptyMap

RECURSIVE ConcatAll(_)
ConcatAll(seqs) ==
    IF seqs = <<>> THEN <<>> ELSE Head(seqs) \o ConcatAll(Tail(seqs))

FunctionsOf(plugin) == UnwrapOr(plugin.functions, <<>>)

\* the order this call's HashMap of plugin p, function f, side iterates in
OrderOf(it, p, f, side) ==
    IF <<p, f, side>> \in DOMAIN it THEN it[<<p, f, side>>] ELSE <<>>

\* the properties extract_variables visits, in the order it visits them
SideEntries(plugins, it, p, f, side) ==
    LET func == FunctionsOf(plugins[p])[f]
        props == PropertiesOf(IF side = "input" THEN func.input_type
                              ELSE func.output_type)
        order == OrderOf(it, p, f, side)
    IN [k \in 1..Len(order) |->
            [side |-> side, func |-> func,
             prop_name |-> order[k], prop |-> props[order[k]]]]

WalkOrder(plugins, it) ==
    ConcatAll([p \in 1..Len(plugins) |->
        ConcatAll([f \in 1..Len(FunctionsOf(plugins[p])) |->
            SideEntries(plugins, it, p, f, "input")
            \o SideEntries(plugins, it, p, f, "output")])])

InputVariable(e, clean_name, rules) ==
    [var_type |-> MutablePrefix \o map_property_type(e.prop.prop_type, e.prop, rules),
     label |-> e.prop.title,
     source |-> None,
     description |-> UnwrapOr(OrElse(e.prop.description, e.prop.title),
                              <<"Variable for ">> \o clean_name)]

\* an output variable whose source names the cleaned property
OutputVariableCleanSource(e, clean_name, rules) ==
    LET prop_type == map_property_type(e.prop.prop_type, e.prop, rules)
        func_name == UnwrapOr(e.func.local_dev_name, e.func.name)
        is_object == prop_type = TObject \/ Contains(prop_type, TObject)
    IN [var_type |-> (IF is_object THEN MutablePrefix ELSE LinkedPrefix) \o prop_type,
        label |-> e.prop.title,
        source |-> IF is_object THEN None
                   ELSE Some(ActionSourcePrefix \o func_name \o <<".">> \o clean_name),
        description |-> UnwrapOr(OrElse(e.prop.description, e.prop.title),
                                 <<"Output from ">>
                                 \o UnwrapOr(e.func.label, e.func.name))]

OutputVariable(e, clean_name, rules) ==
    LET prop_type == map_property_type(e.prop.prop_type, e.prop, rules)
        func_name == UnwrapOr(e.func.local_dev_name, e.func.name)
        is_object == prop_type = TObject \/ Contains(prop_type, TObject)
    IN [var_type |-> (IF is_object THEN MutablePrefix ELSE LinkedPrefix) \o prop_type,
        label |-> e.prop.title,
        source |-> IF is_object THEN None
                   ELSE Some(ActionSourcePrefix \o func_name \o <<".">> \o e.prop_name),
        description |-> UnwrapOr(OrElse(e.prop.description, e.prop.title),
                                 <<"Output from ">>
                                 \o UnwrapOr(e.func.label, e.func.name))]

\* an insert that overwrites the entry already stored
InsertAlways(variables, k, x) ==
    IF k # <<>> THEN MapPut(variables, k, x) ELSE variables

\* variables.insert guarded by !variables.contains_key
InsertIfAbsent(variables, k, x) ==
    IF k # <<>> /\ k \notin DOMAIN variables THEN MapPut(variables, k, x)
    ELSE variables

RECURSIVE ExtractFrom(_, _, _)
ExtractFrom(entries, variables, rules) ==
    IF entries = <<>> THEN variables
    ELSE LET e == Head(entries)
             clean_name == CleanVariableName(e.prop_name,
                              IF e.side = "input" THEN InputPrefix ELSE OutputPrefix)
             variable == IF e.side = "input"
                         THEN InputVariable(e, clean_name, rules)
                         ELSE OutputVariable(e, clean_name, rules)
         IN ExtractFrom(Tail(entries),
                        InsertIfAbsent(variables, clean_name, variable), rules)

extract_variables(input, rules, it) ==
    IF ~input.plugins.some THEN EmptyMap
    ELSE ExtractFrom(WalkOrder(input.plugins.v, it), EmptyMap, rules)

-----------------------------------------------------------------------------
(* converter.rs: actions of a topic.  A topic of the model is its two      *)
(* action tables, [reasoning |-> [actions], actions]; a topic's prose      *)
(* (label, description, instructions) is computed without reading a map    *)
(* and is not represented.  Of an action the model keeps the target and   *)
(* the two parameter tables; of a parameter its type, description, label   *)
(* and, for an input, is_required and is_user_input.  The fields left out  *)
(* (const_value, complex_data_type_name, is_displayable,                   *)
(* is_used_by_planner, an action's description, label and flags) are       *)
(* copied from the property or function they belong to and are never read  *)
(* by a guard.                                                             *)

RECURSIVE InsertAll(_, _)
\* HashMap::insert of each <<key, value>> in turn: a later one overwrites
InsertAll(pairs, m) ==
    IF pairs = <<>> THEN m
    ELSE InsertAll(Tail(pairs), MapPut(m, Head(pairs)[1], Head(pairs)[2]))

build_detailed_inputs(input_type, rules, order) ==
    LET properties == PropertiesOf(Some(input_type))
        entry(name) ==
            LET prop == properties[name]
                clean_name == Replace(name, InputPrefix, <<>>)
                is_required ==
                    IF input_type.required.some
                    THEN \E k \in DOMAIN input_type.required.v :
                            input_type.required.v[k] = name
                    ELSE FALSE
            IN <<clean_name,
                 [input_type |-> map_property_type(prop.prop_type, prop, rules),
                  description |-> OrElse(prop.description, prop.title),
                  label |-> OrElse(prop.title, Some(clean_name)),
                  is_required |-> is_required,
                  is_user_input |-> UnwrapOr(prop.is_user_input, is_required)]>>
    IN InsertAll([k \in 1..Len(order) |-> entry(order[k])], EmptyMap)

build_detailed_outputs(output_type, rules, order) ==
    LET properties == PropertiesOf(Some(output_type))
        entry(name) ==
            LET prop == properties[name]
                clean_name == Replace(name, OutputPrefix, <<>>)
            IN <<clean_name,
                 [output_type |-> map_property_type(prop.prop_type, prop, rules),
                  description |-> OrElse(prop.description, prop.title),
                  label |-> OrElse(prop.title, Some(clean_name))]>>
    IN InsertAll([k \in 1..Len(order) |-> entry(order[k])], EmptyMap)

build_detailed_action_target(func) ==
    UnwrapOr(func.invocation_target_type, <<"action">>)
    \o <<":", "/", "/">>
    \o UnwrapOr(OrElse(func.invocation_target_name, func.invocation_target_id),
                func.name)

build_detailed_actions(plugins, p, rules, it) ==
    LET functions == FunctionsOf(plugins[p])
        entry(f) ==
            LET func == functions[f]
            IN <<sanitize_action_name(OrElse(func.local_dev_name, Some(func.name))),
                 [require_user_confirmation |->
                      UnwrapOr(func.require_user_confirmation, FALSE),
                  include_in_progress_indicator |->
                      UnwrapOr(func.include_in_progress_indicator, FALSE),
                  progress_indicator_message |-> func.progress_indicator_message,
                  source |-> func.source,
                  target |-> build_detailed_action_target(func),
                  inputs |-> IF func.input_type.some
                             THEN Some(build_detailed_inputs(func.input_type.v, rules,
                                           OrderOf(it, p, f, "input")))
                             ELSE None,
                  outputs |-> IF func.output_type.some
                              THEN Some(build_detailed_outputs(func.output_type.v, rules,
                                            OrderOf(it, p, f, "output")))
                              ELSE None]>>
    IN InsertAll([f \in 1..Len(functions) |-> entry(f)], EmptyMap)

ActionRefPrefix == <<"@", "a", "c", "t", "i", "o", "n", "s", ".">>

build_reasoning_action_references(actions) ==
    [action_name \in DOMAIN actions |->
        [target |-> ActionRefPrefix \o action_name,
         description |-> None,
         with_params |-> IF actions[action_name].inputs.some
                         THEN Some(SortedKeys(DOMAIN actions[action_name].inputs.v))
                         ELSE None]]

Topic(reasoning_actions, actions) ==
    [reasoning |-> [actions |-> reasoning_actions], actions |-> actions]

convert_plugin_to_topic(plugins, p, rules, it) ==
    LET actions == build_detailed_actions(plugins, p, rules, it)
        reasoning_actions == build_reasoning_action_references(actions)
    IN Topic(IF DOMAIN reasoning_actions = {} THEN None ELSE Some(reasoning_actions),
             Some(actions))

\* the entries convert_simple_actions_detailed keeps
KeptSimpleAction(action) ==
    /\ ~action.target.some
    /\ action.action_type # Some(<<"transition">>)
    /\ action.action_type # Some(<<"escalate">>)

SimpleInputDef(input_name, input_def) ==
    [input_type |-> UnwrapOr(input_def.prop_type, TString),
     description |-> input_def.description,
     label |-> OrElse(input_def.label, Some(input_name)),
     is_required |-> UnwrapOr(input_def.required, FALSE),
     is_user_input |-> UnwrapOr(input_def.is_user_input, TRUE)]

SimpleOutputDef(output_name, output_def) ==
    [output_type |-> UnwrapOr(output_def.prop_type, TString),
     description |-> output_def.description,
     label |-> OrElse(output_def.label, Some(output_name))]

convert_simple_actions_detailed(actions_opt) ==
    LET actions == SelectSeq(UnwrapOr(actions_opt, <<>>), KeptSimpleAction)
        entry(k) ==
            LET action == actions[k]
                action_name == UnwrapOr(OrElse(action.name, action.id),
                                        <<"a", "c", "t", "i", "o", "n">>)
            IN <<action_name,
                 [require_user_confirmation |->
                      UnwrapOr(action.require_user_confirmation, FALSE),
                  include_in_progress_indicator |->
                      UnwrapOr(action.include_in_progress_indicator, FALSE),
                  progress_indicator_message |-> action.progress_indicator_message,
                  source |-> action.source,
                  target |-> UnwrapOr(OrElse(action.invocation_target, action.target_name),
                                      <<"action", ":", "/", "/">> \o action_name),
                  inputs |-> IF action.inputs.some
                             THEN Some([n \in DOMAIN action.inputs.v |->
                                    SimpleInputDef(n, action.inputs.v[n])])
                             ELSE None,
                  outputs |-> IF action.outputs.some
                              THEN Some([n \in DOMAIN action.outputs.v |->
                                     SimpleOutputDef(n, action.outputs.v[n])])
                              ELSE None]>>
    IN InsertAll([k \in 1..Len(actions) |-> entry(k)], EmptyMap)

-----------------------------------------------------------------------------
(* converter.rs: the topic selector and the default topics *)

TopicKeyPrefix == <<"t", "o", "p", "i", "c", " ">>
StartAgentPrefix == <<"s", "t", "a", "r", "t", "_", "a", "g", "e", "n", "t", " ">>
GoToPrefix == <<"g", "o", "_", "t", "o", "_">>
TransitionPrefix ==
    <<"@", "u", "t", "i", "l", "s", ".", "t", "r", "a", "n", "s", "i", "t", "i", "o", "n",
      " ", "t", "o", " ", "@", "t", "o", "p", "i", "c", ".">>
NEscalation == <<"e", "s", "c", "a", "l", "a", "t", "i", "o", "n">>
NOffTopic == <<"o", "f", "f", "_", "t", "o", "p", "i", "c">>
NOfftopic == <<"o", "f", "f", "t", "o", "p", "i", "c">>
NAmbiguous == <<"a", "m", "b", "i", "g", "u", "o", "u", "s">>
NAmbiguousQuestion == NAmbiguous \o <<"_", "q", "u", "e", "s", "t", "i", "o", "n">>
SelectorKey == StartAgentPrefix
               \o <<"t", "o", "p", "i", "c", "_", "s", "e", "l", "e", "c", "t", "o", "r">>
EscalateToHuman ==
    <<"e", "s", "c", "a", "l", "a", "t", "e", "_", "t", "o", "_", "h", "u", "m", "a", "n">>

Transition(target) == [target |-> target, description |-> None, with_params |-> None]

TemplatesOf(rules) == IF rules.some THEN rules.v.templates ELSE None

\* the reasoning.actions table of a template, or None
TemplateActions(template) ==
    IF template.some /\ template.v.reasoning.some
    THEN template.v.reasoning.v.actions ELSE None

\* a value of a template's actions table: a JSON string, a JSON object with
\* or without the keys target and description (both strings), or another
\* JSON value, known by its text
JsonString(s) == [kind |-> "string", v |-> s]
JsonObject(target, description) ==
    [kind |-> "object", target |-> target, description |-> description]
JsonOther(json_text) == [kind |-> "other", v |-> json_text]

\* value.to_string() of an object: its JSON text, a single element
ObjectText(value) ==
    IF value.description.some
    THEN <<"{\"description\":\"">> \o value.description.v \o <<"\"}">>
    ELSE <<"{}">>

TemplateTarget(value) ==
    IF value.kind = "object" THEN UnwrapOr(value.target, ObjectText(value))
    ELSE value.v

TemplateDescription(value) ==
    IF value.kind = "object" THEN value.description ELSE None

get_default_topic_transitions(rules) ==
    LET templates == TemplatesOf(rules)
        actions == TemplateActions(IF templates.some THEN templates.v.topic_selector
                                   ELSE None)
        from_template == IF actions.some
                         THEN [key \in DOMAIN actions.v |->
                                  Transition(TemplateTarget(actions.v[key]))]
                         ELSE EmptyMap
        ensure(m, name) ==
            IF (GoToPrefix \o name) \in DOMAIN m THEN m
            ELSE MapPut(m, GoToPrefix \o name, Transition(TransitionPrefix \o name))
    IN ensure(ensure(ensure(from_template, NEscalation), NOffTopic), NAmbiguousQuestion)

\* default transitions that replace the entries a selector already has
WithDefaultTransitionsOverriding(actions, rules) ==
    LET defaults == get_default_topic_transitions(rules)
    IN [key \in DOMAIN actions \cup DOMAIN defaults |->
            IF key \in DOMAIN defaults THEN defaults[key] ELSE actions[key]]

\* the default transitions added to a selector where the name is still free
WithDefaultTransitions(actions, rules) ==
    LET defaults == get_default_topic_transitions(rules)
    IN [key \in DOMAIN actions \cup DOMAIN defaults |->
            IF key \in DOMAIN actions THEN actions[key] ELSE defaults[key]]

SelectorTransitions(topic_names) ==
    InsertAll([k \in 1..Len(topic_names) |->
                  <<GoToPrefix \o topic_names[k],
                    Transition(TransitionPrefix \o topic_names[k])>>],
              EmptyMap)

IsTopicPlugin(plugin) == plugin.plugin_type = Some(<<"TOPIC">>)

PluginTopicName(plugin) ==
    sanitize_topic_name(OrElse(plugin.local_dev_name, Some(plugin.name)))

create_topic_selector_from_plugins(plugins, rules) ==
    LET kept == SelectSeq(plugins, IsTopicPlugin)
        names == [k \in 1..Len(kept) |-> PluginTopicName(kept[k])]
    IN Topic(Some(WithDefaultTransitions(SelectorTransitions(names), rules)), None)

SimpleTopicName(topic) == sanitize_topic_name(OrElse(topic.name, topic.id))

create_topic_selector_from_simple_topics(topics, rules) ==
    LET names == [k \in 1..Len(topics) |-> SimpleTopicName(topics[k])]
    IN Topic(Some(WithDefaultTransitions(SelectorTransitions(names), rules)), None)

create_default_topic_selector(rules) ==
    Topic(Some(get_default_topic_transitions(rules)), None)

\* an escalation topic whose escalate_to_human is the built-in one always
CreateEscalationTopicBuiltIn(rules) ==
    LET templates == TemplatesOf(rules)
        actions == TemplateActions(IF templates.some THEN templates.v.escalation
                                   ELSE None)
        from_template == IF actions.some
                         THEN [key \in DOMAIN actions.v |->
                                  [target |-> TemplateTarget(actions.v[key]),
                                   description |-> TemplateDescription(actions.v[key]),
                                   with_params |-> None]]
                         ELSE EmptyMap
    IN Topic(Some(MapPut(from_template, EscalateToHuman,
                         [target |-> <<"@utils.escalate">>,
                          description |->
                              Some(<<"Call this tool to escalate to a human agent.">>),
                          with_params |-> None])),
             None)

create_default_escalation_topic(rules) ==
    LET templates == TemplatesOf(rules)
        actions == TemplateActions(IF templates.some THEN templates.v.escalation
                                   ELSE None)
        from_template == IF actions.some
                         THEN [key \in DOMAIN actions.v |->
                                  [target |-> TemplateTarget(actions.v[key]),
                                   description |-> TemplateDescription(actions.v[key]),
                                   with_params |-> None]]
                         ELSE EmptyMap
    IN Topic(Some(IF EscalateToHuman \in DOMAIN from_template THEN from_template
                  ELSE MapPut(from_template, EscalateToHuman,
                              [target |-> <<"@utils.escalate">>,
                               description |->
                                   Some(<<"Call this tool to escalate to a human agent.">>),
                               with_params |-> None])),
             None)

create_default_off_topic(rules) == Topic(Some(EmptyMap), None)

create_default_ambiguous_topic(rules) == Topic(Some(EmptyMap), None)

\* a lookup that never finds a topic
HasTopicNever(topics, name) == FALSE

has_topic_by_name(topics, name) ==
    \E key \in DOMAIN topics :
        /\ StartsWith(key, TopicKeyPrefix) \/ StartsWith(key, StartAgentPrefix)
        /\ Contains(ToLowercase(key), ToLowercase(name))

\* a defaults pass that adds nothing
EnsureNoDefaults(topics, rules) == topics

ensure_default_topics(topics, rules) ==
    LET t1 == IF ~has_topic_by_name(topics, NEscalation)
              THEN MapPut(topics, TopicKeyPrefix \o NEscalation,
                          create_default_escalation_topic(rules))
              ELSE topics
        t2 == IF ~has_topic_by_name(t1, NOffTopic) /\ ~has_topic_by_name(t1, NOfftopic)
              THEN MapPut(t1, TopicKeyPrefix \o NOffTopic, create_default_off_topic(rules))
              ELSE t1
    IN IF ~has_topic_by_name(t2, NAmbiguous)
       THEN MapPut(t2, TopicKeyPrefix \o NAmbiguousQuestion,
                   create_default_ambiguous_topic(rules))
       ELSE t2

-----------------------------------------------------------------------------
(* converter.rs: the three converters and their dispatch *)

build_system_instructions(input, rules) ==
    LET tone == IF input.planner_tone_type = Some(<<"CASUAL">>)
                THEN <<<<"Maintain a casual and friendly tone.">>>>
                ELSE IF input.planner_tone_type = Some(<<"FORMAL">>)
                THEN <<<<"Maintain a formal and professional tone.">>>>
                ELSE IF input.planner_tone_type = Some(<<"NEUTRAL">>)
                THEN <<<<"Maintain a neutral and balanced tone.">>>>
                ELSE <<>>
        parts ==
            (IF input.planner_role.some
             THEN <<convert_variables_in_text(input.planner_role, rules)>> ELSE <<>>)
            \o (IF input.planner_company.some
                THEN <<convert_variables_in_text(input.planner_company, rules)>> ELSE <<>>)
            \o tone
            \o (IF input.user_location.some
                THEN <<<<"User location: ">> \o input.user_location.v \o <<".">>>>
                ELSE <<>>)
    IN IF parts = <<>> THEN <<"You are an AI Agent.">> ELSE Join(parts, <<" ">>)

ConnectionPrefix == <<"c", "o", "n", "n", "e", "c", "t", "i", "o", "n", " ">>
ConnectionVoice == ConnectionPrefix \o <<"v", "o", "i", "c", "e">>
ConnectionMessaging == ConnectionPrefix \o <<"m", "e", "s", "s", "a", "g", "i", "n", "g">>

NGAOutput(converter, instructions, variables, connection, topics) ==
    [converter |-> converter,
     system |-> [instructions |-> instructions],
     variables |-> variables,
     connections |-> {connection},
     topics |-> topics]

convert_agentforce_format(input, rules, it) ==
    LET plugins == UnwrapOr(input.plugins, <<>>)
        IsKept(p) == IsTopicPlugin(plugins[p])
        kept == SelectSeq([p \in DOMAIN plugins |-> p], IsKept)
        pairs == [k \in DOMAIN kept |->
                     <<TopicKeyPrefix \o PluginTopicName(plugins[kept[k]]),
                       convert_plugin_to_topic(plugins, kept[k], rules, it)>>]
        topics == IF input.plugins.some
                  THEN InsertAll(pairs,
                           MapPut(EmptyMap, SelectorKey,
                                  create_topic_selector_from_plugins(plugins, rules)))
                  ELSE EmptyMap
    IN NGAOutput("convert_agentforce_format",
                 build_system_instructions(input, rules),
                 extract_variables(input, rules, it),
                 IF input.voice_config.some THEN ConnectionVoice ELSE ConnectionMessaging,
                 ensure_default_topics(topics, rules))

convert_simple_format(input, rules) ==
    LET topics_in == UnwrapOr(input.topics, <<>>)
        pairs == [k \in DOMAIN topics_in |->
                     <<TopicKeyPrefix \o SimpleTopicName(topics_in[k]),
                       Topic(None,
                             Some(convert_simple_actions_detailed(topics_in[k].actions)))>>]
        topics == IF input.topics.some
                  THEN InsertAll(pairs,
                           MapPut(EmptyMap, SelectorKey,
                                  create_topic_selector_from_simple_topics(topics_in, rules)))
                  ELSE EmptyMap
    IN NGAOutput("convert_simple_format",
                 UnwrapOr(input.description, <<"You are an AI Agent.">>),
                 EmptyMap,
                 ConnectionMessaging,
                 ensure_default_topics(topics, rules))

\* a minimal-shape converter that leaves the topic table to the defaults pass
ConvertGenericWithoutSelector(input, rules) ==
    NGAOutput("convert_generic_format",
              UnwrapOr(input.planner_role, <<"You are an AI Agent.">>),
              EmptyMap, ConnectionMessaging,
              ensure_default_topics(EmptyMap, rules))

convert_generic_format(input, rules) ==
    NGAOutput("convert_generic_format",
              UnwrapOr(input.planner_role, <<"You are an AI Agent.">>),
              EmptyMap,
              ConnectionMessaging,
              InsertAll(<< <<SelectorKey, create_default_topic_selector(rules)>>,
                           <<TopicKeyPrefix \o NEscalation,
                             create_default_escalation_topic(rules)>>,
                           <<TopicKeyPrefix \o NOffTopic, create_default_off_topic(rules)>>,
                           <<TopicKeyPrefix \o NAmbiguousQuestion,
                             create_default_ambiguous_topic(rules)>> >>,
                        EmptyMap))

\* a dispatch that looks at the topic list before the plugin list
DetectTopicsFirst(input, rules, it) ==
    IF input.topics.some /\ input.topics.v # <<>>
    THEN convert_simple_format(input, rules)
    ELSE IF input.plugins.some /\ input.plugins.v # <<>>
    THEN convert_agentforce_format(input, rules, it)
    ELSE convert_generic_format(input, rules)

detect_and_convert(input, rules, it) ==
    IF input.plugins.some /\ input.plugins.v # <<>>
    THEN convert_agentforce_format(input, rules, it)
    ELSE IF input.topics.some /\ input.topics.v # <<>>
    THEN convert_simple_format(input, rules)
    ELSE convert_generic_format(input, rules)

-----------------------------------------------------------------------------
(* yaml_generator.rs: the output text, a sequence of lines.  A line starts *)
(* with its indentation, one element, unless it is a top-level line; the  *)
(* empty lines between the sections are not represented.                  *)

escape_yaml_string(s) ==
    Replace(Replace(Replace(s, <<"\\">>, <<"\\", "\\">>),
                    <<"\"">>, <<"\\", "\"">>),
            <<"\n">>, <<"\\", "n">>)

format_boolean_value(value) == IF value THEN <<"True">> ELSE <<"False">>

Quoted(prefix, s) == prefix \o <<"\"">> \o s \o <<"\"">>

\* a free-text value: rewritten, then escaped, then quoted
FreeText(prefix, s, rules) ==
    Quoted(prefix, escape_yaml_string(convert_variables_in_text(Some(s), rules)))

OptionalLine(opt, line) == IF opt.some THEN <<line>> ELSE <<>>

\* char::is_numeric and char::is_alphabetic on the characters of the model
IsNumeric(c) == c \in Digits
IsAlphabetic(c) == c \in Range(Lowers) \cup Range(Uppers)

\* the readable-name test with the leading-digit test its comment announces
IsReadableSourceNameLeadingDigit(source) ==
    \/ Contains(source, <<"_">>)
    \/ Contains(source, <<" ">>)
    \/ ~(/\ \A i \in DOMAIN source : IsAlphanumeric(source[i])
         /\ \E i \in DOMAIN source : IsAlphabetic(source[i])
         /\ \E i \in DOMAIN source : IsNumeric(source[i])
         /\ \/ IsNumeric(source[1])
            \/ \E i \in 1..(Len(source) - 2) :
                   \A j \in i..(i + 2) : IsNumeric(source[j]))

is_readable_source_name(source) ==
    LET len == Len(source)
        all_alphanumeric == \A i \in DOMAIN source : IsAlphanumeric(source[i])
        has_letters == \E i \in DOMAIN source : IsAlphabetic(source[i])
        has_numbers == \E i \in DOMAIN source : IsNumeric(source[i])
        three_consecutive_digits ==
            \E i \in 1..(len - 2) : \A j \in i..(i + 2) : IsNumeric(source[j])
    IN IF Contains(source, <<"_">>) THEN TRUE
       ELSE IF Contains(source, <<" ">>) THEN TRUE
       ELSE IF (len = 15 \/ len = 18) /\ all_alphanumeric /\ has_letters /\ has_numbers
       THEN FALSE
       ELSE IF all_alphanumeric /\ three_consecutive_digits THEN FALSE
       ELSE TRUE

VariableLines(name, variable, rules) ==
    <<<<"    ">> \o name \o <<":", " ">> \o variable.var_type>>
    \o (IF /\ StartsWith(variable.var_type, <<"l", "i", "n", "k", "e", "d">>)
           /\ variable.source.some
           /\ ~StartsWith(variable.source.v, ActionSourcePrefix)
        THEN <<<<"        ", "source: ">> \o variable.source.v>> ELSE <<>>)
    \o OptionalLine(variable.label,
           Quoted(<<"        ", "label: ">>, UnwrapOr(variable.label, <<>>)))
    \o <<FreeText(<<"        ", "description: ">>, variable.description, rules)>>

InputLines(input_name, input_def, rules) ==
    <<Quoted(<<"                ">>, input_name) \o <<":", " ">> \o input_def.input_type>>
    \o OptionalLine(input_def.description,
           FreeText(<<"                    ", "description: ">>,
                    UnwrapOr(input_def.description, <<>>), rules))
    \o OptionalLine(input_def.label,
           Quoted(<<"                    ", "label: ">>, UnwrapOr(input_def.label, <<>>)))
    \o <<<<"                    ", "is_required: ">>
             \o format_boolean_value(input_def.is_required),
         <<"                    ", "is_user_input: ">>
             \o format_boolean_value(input_def.is_user_input)>>

OutputLines(output_name, output_def, rules) ==
    <<Quoted(<<"                ">>, output_name) \o <<":", " ">> \o output_def.output_type>>
    \o OptionalLine(output_def.description,
           FreeText(<<"                    ", "description: ">>,
                    UnwrapOr(output_def.description, <<>>), rules))
    \o OptionalLine(output_def.label,
           Quoted(<<"                    ", "label: ">>, UnwrapOr(output_def.label, <<>>)))

\* blocks maps each key to the lines written for it: the blocks in the
\* order of the sorted keys
SortedLines(blocks) ==
    LET keys == SortedKeys(DOMAIN blocks)
    IN ConcatAll([k \in 1..Len(keys) |-> blocks[keys[k]]])

\* the lines of one action with the progress message rewritten before it
\* is escaped
ActionLinesRewritten(action_name, action, rules) ==
    LET InLines(m) == [n \in DOMAIN m |-> InputLines(n, m[n], rules)]
        OutLines(m) == [n \in DOMAIN m |-> OutputLines(n, m[n], rules)]
    IN <<<<"        ">> \o action_name \o <<":">>,
         <<"            ", "require_user_confirmation: ">>
             \o format_boolean_value(action.require_user_confirmation),
         <<"            ", "include_in_progress_indicator: ">>
             \o format_boolean_value(action.include_in_progress_indicator)>>
       \o (IF action.source.some /\ is_readable_source_name(action.source.v)
           THEN <<Quoted(<<"            ", "source: ">>, action.source.v)>> ELSE <<>>)
       \o <<Quoted(<<"            ", "target: ">>, action.target)>>
       \o OptionalLine(action.progress_indicator_message,
              FreeText(<<"            ", "progress_indicator_message: ">>,
                       UnwrapOr(action.progress_indicator_message, <<>>), rules))
       \o (IF action.inputs.some /\ DOMAIN action.inputs.v # {}
           THEN <<<<"            ", "inputs:">>>> \o SortedLines(InLines(action.inputs.v))
           ELSE <<>>)
       \o (IF action.outputs.some /\ DOMAIN action.outputs.v # {}
           THEN <<<<"            ", "outputs:">>>> \o SortedLines(OutLines(action.outputs.v))
           ELSE <<>>)

ActionLines(action_name, action, rules) ==
    LET InLines(m) == [n \in DOMAIN m |-> InputLines(n, m[n], rules)]
        OutLines(m) == [n \in DOMAIN m |-> OutputLines(n, m[n], rules)]
    IN <<<<"        ">> \o action_name \o <<":">>,
         <<"            ", "require_user_confirmation: ">>
             \o format_boolean_value(action.require_user_confirmation),
         <<"            ", "include_in_progress_indicator: ">>
             \o format_boolean_value(action.include_in_progress_indicator)>>
       \o (IF action.source.some /\ is_readable_source_name(action.source.v)
           THEN <<Quoted(<<"            ", "source: ">>, action.source.v)>> ELSE <<>>)
       \o <<Quoted(<<"            ", "target: ">>, action.target)>>
       \o OptionalLine(action.progress_indicator_message,
              Quoted(<<"            ", "progress_indicator_message: ">>,
                     escape_yaml_string(UnwrapOr(action.progress_indicator_message, <<>>))))
       \o (IF action.inputs.some /\ DOMAIN action.inputs.v # {}
           THEN <<<<"            ", "inputs:">>>> \o SortedLines(InLines(action.inputs.v))
           ELSE <<>>)
       \o (IF action.outputs.some /\ DOMAIN action.outputs.v # {}
           THEN <<<<"            ", "outputs:">>>> \o SortedLines(OutLines(action.outputs.v))
           ELSE <<>>)

format_detailed_actions(actions, rules) ==
    SortedLines([n \in DOMAIN actions |-> ActionLines(n, actions[n], rules)])

ReasoningActionLines(action_name, action, rules) ==
    <<<<"            ">> \o action_name \o <<":", " ">> \o action.target>>
    \o (IF action.with_params.some
        THEN [k \in 1..Len(action.with_params.v) |->
                 <<"                ", "with ">> \o action.with_params.v[k] \o <<" = ...">>]
        ELSE <<>>)
    \o OptionalLine(action.description,
           FreeText(<<"                ", "description: ">>,
                    UnwrapOr(action.description, <<>>), rules))

TopicLines(key, topic, rules) ==
    LET RLines(m) == [n \in DOMAIN m |-> ReasoningActionLines(n, m[n], rules)]
    IN IF StartsWith(key, StartAgentPrefix) \/ StartsWith(key, TopicKeyPrefix)
       THEN <<key \o <<":">>, <<"    ", "reasoning:">>>>
            \o (IF topic.reasoning.actions.some /\ DOMAIN topic.reasoning.actions.v # {}
                THEN <<<<"        ", "actions:">>>>
                     \o SortedLines(RLines(topic.reasoning.actions.v))
                ELSE <<>>)
            \o (IF topic.actions.some /\ DOMAIN topic.actions.v # {}
                THEN <<<<"    ", "actions:">>>>
                     \o format_detailed_actions(topic.actions.v, rules)
                ELSE <<>>)
       ELSE <<>>

\* the serializer writing a section for every connection key
GenerateNgaYamlEveryConnection(nga, rules) ==
    LET VLines == [n \in DOMAIN nga.variables |->
                      VariableLines(n, nga.variables[n], rules)]
        TLines == [k \in DOMAIN nga.topics |-> TopicLines(k, nga.topics[k], rules)]
        conn_keys == SortedKeys(nga.connections)
    IN <<<<"system:">>,
         FreeText(<<"    ", "instructions: ">>, nga.system.instructions, rules),
         <<"config:">>>>
       \o (IF DOMAIN nga.variables # {}
           THEN <<<<"variables:">>>> \o SortedLines(VLines) ELSE <<>>)
       \o <<<<"language:">>>>
       \o [k \in 1..Len(conn_keys) |-> conn_keys[k] \o <<":">>]
       \o SortedLines(TLines)

generate_nga_yaml(nga, rules) ==
    LET VLines == [n \in DOMAIN nga.variables |->
                      VariableLines(n, nga.variables[n], rules)]
        TLines == [k \in DOMAIN nga.topics |-> TopicLines(k, nga.topics[k], rules)]
        conn_keys == SelectSeq(SortedKeys(nga.connections),
                               LAMBDA key : StartsWith(key, ConnectionPrefix))
    IN <<<<"system:">>,
         FreeText(<<"    ", "instructions: ">>, nga.system.instructions, rules),
         <<"config:">>>>
       \o (IF DOMAIN nga.variables # {}
           THEN <<<<"variables:">>>> \o SortedLines(VLines) ELSE <<>>)
       \o <<<<"language:">>>>
       \o (IF conn_keys # <<>> THEN <<conn_keys[1] \o <<":">>>> ELSE <<>>)
       \o SortedLines(TLines)

-----------------------------------------------------------------------------
(* lib.rs: convert_agent.  An input text is text serde_json rejects, or    *)
(* parses into a document; of the text itself the detector only sees the   *)
(* free-text values and the braces of the enclosing object.                *)

NoInput == [kind |-> "none"]
MalformedInputText == [kind |-> "malformed"]
InputText(doc) == [kind |-> "json", doc |-> doc]

RawText(doc) ==
    <<"{", "\"">> \o UnwrapOr(doc.planner_role, <<>>)
    \o <<"\"", ",", "\"">> \o UnwrapOr(doc.description, <<>>) \o <<"\"", "}">>

Err(msg) == [ok |-> FALSE, error |-> msg]

count_actions(topics) ==
    LET n(key) == IF topics[key].actions.some
                  THEN Cardinality(DOMAIN topics[key].actions.v) ELSE 0
        RECURSIVE Sum(_)
        Sum(keys) == IF keys = {} THEN 0
                     ELSE LET k == CHOOSE k \in keys : TRUE
                          IN n(k) + Sum(keys \ {k})
    IN Sum(DOMAIN topics)

\* convert_agent once the rules text has been through parse_rules
ConvertWithRules(input_text, rules, it) ==
    IF input_text.kind # "json" THEN Err("Failed to parse input JSON")
    ELSE LET input == input_text.doc
             has_variables_with_dollar ==
                 check_for_dollar_variables(RawText(input), rules)
             nga_output == detect_and_convert(input, rules, it)
         IN [ok |-> TRUE,
             nga |-> nga_output,
             yaml |-> generate_nga_yaml(nga_output, rules),
             has_variables_with_dollar |-> has_variables_with_dollar,
             topic_count |-> Cardinality(DOMAIN nga_output.topics),
             action_count |-> count_actions(nga_output.topics)]

\* a convert_agent that hands a rules parse error to its caller
ConvertAgentRejectingRules(input_text, rules_text, it) ==
    IF rules_text.kind = "malformed" THEN Err("Failed to parse rules JSON")
    ELSE ConvertWithRules(input_text, parse_rules(rules_text), it)

convert_agent(input_text, rules_text, it) ==
    ConvertWithRules(input_text, parse_rules(rules_text), it)

\* the orders in which one call can find the property maps of the input
Perms(S) ==
    {s \in [1..Cardinality(S) -> S] :
        \A i, j \in 1..Cardinality(S) : i # j => s[i] # s[j]}

PropertyKeys(plugins, id) ==
    LET func == FunctionsOf(plugins[id[1]])[id[2]]
    IN DOMAIN PropertiesOf(IF id[3] = "input" THEN func.input_type
                           ELSE func.output_type)

IterChoices(input_text) ==
    IF input_text.kind # "json" THEN {EmptyMap}
    ELSE LET plugins == UnwrapOr(input_text.doc.plugins, <<>>)
             ids == {id \in (DOMAIN plugins) \X (1..MaxFuncs) \X {"input", "output"} :
                        /\ id[2] <= Len(FunctionsOf(plugins[id[1]]))
                        /\ PropertyKeys(plugins, id) # {}}
         IN {it \in [ids -> UNION {Perms(PropertyKeys(plugins, id)) : id \in ids}] :
                \A id \in ids : it[id] \in Perms(PropertyKeys(plugins, id))}

\* one call of convert_agent(input_json, rules_json)
ConvertAgent ==
    /\ calls < MaxCalls
    /\ input_json # NoInput
    /\ \E it \in IterChoices(input_json) :
          /\ iter' = it
          /\ result' = Some(convert_agent(input_json, rules_json, it))
    /\ previous' = result
    /\ calls' = calls + 1
    /\ UNCHANGED <<input_json, rules_json, text, before, passes, detected,
                   arg, rets, threads, statics, hash_keys>>

-----------------------------------------------------------------------------
(* The texts and rules the rewriter is run on *)

TextAlphabet == {"{", "}", "!", "$", "@", "a"}

Texts == UNION {[1..n -> TextAlphabet] : n \in 0..MaxTextLen}

\* a custom pattern \{\$([^}]+)\} rewritten to [$1], and one Regex::new rejects
PatDollarAny ==
    [pattern |-> [valid |-> TRUE, lit |-> <<"{", "$">>, excl |-> {}],
     replacement |-> <<"[", "$", "1", "]">>]
PatMalformed ==
    [pattern |-> [valid |-> FALSE, lit |-> <<>>, excl |-> {}],
     replacement |-> <<"x">>]

VarConv(enabled, patterns) == [enabled |-> enabled, patterns |-> patterns]

RewriteRulesTexts ==
    {EmptyRulesText, MalformedRulesText}
    \cup {RulesText(RulesDoc(vc, None, None)) :
            vc \in {None,
                    Some(VarConv(None, None)),
                    Some(VarConv(Some(TRUE), None)),
                    Some(VarConv(Some(FALSE), None)),
                    Some(VarConv(Some(FALSE), Some(<<PatDollarAny>>))),
                    Some(VarConv(None, Some(<<>>))),
                    Some(VarConv(None, Some(<<PatMalformed, PatDollarAny>>)))}}

InitRewrite ==
    /\ input_json = NoInput
    /\ text \in {None} \cup {Some(t) : t \in Texts}
    /\ rules_json \in RewriteRulesTexts
    /\ IF text.some /\ rules_json # EmptyRulesText
       THEN Len(text.v) <= MaxRuleTextLen ELSE TRUE
    /\ result = None
    /\ previous = None
    /\ iter = EmptyMap
    /\ calls = 0
    /\ before = None
    /\ passes = 0
    /\ detected = None
    /\ arg = None
    /\ rets = <<>>
    /\ NoThreads

\* one call of convert_variables_in_text on the current text
ConvertVariablesInText ==
    /\ passes < MaxPasses
    /\ before' = text
    /\ text' = Some(convert_variables_in_text(text, parse_rules(rules_json)))
    /\ passes' = passes + 1
    /\ detected' = None
    /\ UNCHANGED <<input_json, rules_json, result, previous, iter, calls,
                   arg, rets, threads, statics, hash_keys>>

\* lib.rs check_dollar_variables(input, rules_json)
CheckDollarVariables ==
    /\ text.some
    /\ detected = None
    /\ detected' = Some(check_for_dollar_variables(text.v, parse_rules(rules_json)))
    /\ UNCHANGED <<input_json, rules_json, result, previous, iter, calls,
                   text, before, passes, arg, rets, threads, statics, hash_keys>>

NextRewrite == ConvertVariablesInText \/ CheckDollarVariables

SpecRewrite == InitRewrite /\ [][NextRewrite]_vars

-----------------------------------------------------------------------------
(* The inputs and rules convert_agent is run on *)

Doc(role, voice, plugins, topics) ==
    [planner_role |-> role, planner_company |-> None, planner_tone_type |-> None,
     user_location |-> None, description |-> None, voice_config |-> voice,
     plugins |-> plugins, topics |-> topics]

Plugin(name, plugin_type, functions) ==
    [name |-> name, local_dev_name |-> None, plugin_type |-> plugin_type,
     functions |-> functions, can_escalate |-> None,
     scope |-> None, instruction_definitions |-> None]

Function(name, input_type, output_type) ==
    [name |-> name, local_dev_name |-> None, label |-> None,
     invocation_target_type |-> None, invocation_target_name |-> None,
     invocation_target_id |-> None,
     require_user_confirmation |-> None, include_in_progress_indicator |-> None,
     progress_indicator_message |-> None, source |-> None,
     input_type |-> input_type, output_type |-> output_type]

Property(prop_type, items) ==
    [prop_type |-> prop_type, items |-> items, title |-> None,
     description |-> None, is_user_input |-> None]

IOType(properties) == [properties |-> Some(properties), required |-> None]

TopicInput(name, actions) == [name |-> name, id |-> None, actions |-> actions]

ActionInput(name, action_type, target, invocation_target) ==
    [name |-> name, id |-> None, action_type |-> action_type, target |-> target,
     invocation_target |-> invocation_target, target_name |-> None,
     require_user_confirmation |-> None, include_in_progress_indicator |-> None,
     progress_indicator_message |-> None, source |-> None,
     inputs |-> None, outputs |-> None]

SeqsUpTo(S, n) == UNION {[1..k -> S] : k \in 0..n}

RECURSIVE PickInOrder(_, _)
PickInOrder(choices, I) ==
    IF I = {} THEN <<>>
    ELSE LET m == CHOOSE i \in I : \A j \in I : i <= j
         IN <<choices[m]>> \o PickInOrder(choices, I \ {m})

\* the lists of at most n of the choices, in the order of the choices
ListsUpTo(choices, n) ==
    {PickInOrder(choices, I) :
        I \in {J \in SUBSET DOMAIN choices : Cardinality(J) <= n}}

\* the two ways an input fills the agent-level fields
Profiles == {<<None, None>>, <<Some(<<"{", "$", "a", "}">>), Some("voice")>>}

TopicType == Some(<<"TOPIC">>)

PluginChoices ==
    <<Plugin(<<"B", "i", "l", "l", "i", "n", "g">>, TopicType, None),
      Plugin(<<"E", "s", "c", "a", "l", "a", "t", "i", "o", "n">>, None, None),
      Plugin(<<"E", "s", "c", "a", "l", "a", "t", "i", "o", "n">>, TopicType, None),
      Plugin(<<"M", "y", " ", "E", "s", "c", "a", "l", "a", "t", "i", "o", "n">>,
             TopicType, None),
      Plugin(<<"o", "f", "f", "t", "o", "p", "i", "c">>, TopicType, None),
      Plugin(<<"A", "m", "b", "i", "g", "u", "o", "u", "s">>, TopicType, None)>>

TopicChoices ==
    <<TopicInput(Some(<<"S", "a", "l", "e", "s">>), None),
      TopicInput(Some(<<"E", "s", "c", "a", "l", "a", "t", "i", "o", "n">>), None)>>

TopicDocs ==
    {Doc(pr[1], pr[2], plugins, topics) :
        pr \in Profiles,
        plugins \in {None} \cup {Some(ps) : ps \in ListsUpTo(PluginChoices, MaxPlugins)},
        topics \in {None} \cup {Some(ts) : ts \in ListsUpTo(TopicChoices, MaxTopics)}}

\* a selector template that redirects go_to_escalation, an escalation
\* template with an action of its own
TemplateRules ==
    RulesDoc(None,
        Some([topic_selector |->
                 Some([reasoning |-> Some([actions |->
                     Some((GoToPrefix \o NEscalation) :> JsonString(<<"@topic.help">>))])]),
              escalation |->
                 Some([reasoning |-> Some([actions |->
                     Some(<<"l", "o", "g">> :> JsonString(<<"@utils.log">>))])])]),
        None)

TopicRulesTexts == {EmptyRulesText, MalformedRulesText, RulesText(TemplateRules)}

InitTopics ==
    /\ input_json \in {MalformedInputText} \cup {InputText(d) : d \in TopicDocs}
    /\ rules_json \in TopicRulesTexts
    /\ text = None
    /\ result = None
    /\ previous = None
    /\ iter = EmptyMap
    /\ calls = 0
    /\ before = None
    /\ passes = 0
    /\ detected = None
    /\ arg = None
    /\ rets = <<>>
    /\ NoThreads

NextConvert == ConvertAgent

SpecTopics == InitTopics /\ [][NextConvert]_vars

-----------------------------------------------------------------------------
(* The inputs with functions: at most MaxFuncs functions, named by their    *)
(* position, with at most MaxProps properties between them, sitting in one  *)
(* plugin or split over a topic plugin and a plugin that is no topic.  A    *)
(* property set that is present holds "a", alone or with the prefixed name  *)
(* that cleans to "a" too.                                                  *)

RawA == <<"a">>
InputProperties ==
    (RawA :> Property(Some(TString), None))
    @@ ((InputPrefix \o RawA) :> Property(Some(TNumber), None))
OutputProperties ==
    (RawA :> Property(Some(TString), None))
    @@ ((OutputPrefix \o RawA) :> Property(Some(TObject), None))

PropertySets(universe) ==
    {[n \in D |-> universe[n]] : D \in {E \in SUBSET DOMAIN universe : RawA \in E}}

SideChoices(universe) ==
    {None} \cup {Some(IOType(m)) : m \in PropertySets(universe)}

PropertyCount(side) == Cardinality(DOMAIN PropertiesOf(side))

FunctionShapes ==
    {sh \in SideChoices(InputProperties) \X SideChoices(OutputProperties) :
        PropertyCount(sh[1]) + PropertyCount(sh[2]) \in 1..MaxProps}

RECURSIVE TotalProperties(_)
TotalProperties(shapes) ==
    IF shapes = <<>> THEN 0
    ELSE PropertyCount(Head(shapes)[1]) + PropertyCount(Head(shapes)[2])
         + TotalProperties(Tail(shapes))

FunctionNames == <<<<"f">>, <<"g">>, <<"h">>, <<"k">>>>

FunctionsOfShapes(shapes) ==
    [i \in 1..Len(shapes) |-> Function(FunctionNames[i], shapes[i][1], shapes[i][2])]

\* the first k functions in a topic plugin, the others in a second plugin
PluginsOfShapes(shapes, k) ==
    LET functions == FunctionsOfShapes(shapes)
    IN IF k = Len(shapes) THEN <<Plugin(<<"P">>, TopicType, Some(functions))>>
       ELSE <<Plugin(<<"P">>, TopicType, Some(SubSeq(functions, 1, k))),
              Plugin(<<"Q">>, None, Some(SubSeq(functions, k + 1, Len(shapes))))>>

VarDocs ==
    UNION {{Doc(None, None, Some(PluginsOfShapes(shapes, k)), None) :
                k \in 1..Len(shapes)} :
           shapes \in {sh \in SeqsUpTo(FunctionShapes, MaxFuncs) \ {<<>>} :
                          TotalProperties(sh) <= MaxProps}}

\* a topic plugin whose function takes "a", followed by a plugin that is no
\* topic (untagged, or tagged otherwise) whose function returns "b"
RawB == <<"b">>
StrayDocs ==
    {Doc(None, None,
         Some(<<Plugin(<<"P">>, TopicType,
                       Some(<<Function(FunctionNames[1],
                                       Some(IOType(RawA :> Property(Some(TString), None))),
                                       None)>>)),
                Plugin(<<"Q">>, tag,
                       Some(<<Function(FunctionNames[2], None,
                                       Some(IOType(RawB :> Property(Some(TString),
                                                                    None))))>>))>>),
         None) :
        tag \in {None, Some(<<"ACTION">>)}}

\* a topic plugin with two functions whose names differ in a character the
\* sanitizer replaces, or do not differ at all
ClashDocs ==
    {Doc(None, None,
         Some(<<Plugin(<<"P">>, TopicType,
                       Some(<<Function(<<"G", "e", "t", "-", "O", "r", "d", "e", "r">>,
                                       Some(IOType(RawA :> Property(Some(TString), None))),
                                       None),
                              Function(second, None,
                                       Some(IOType(RawA :> Property(Some(TString),
                                                                    None))))>>))>>),
         None) :
        second \in {<<"G", "e", "t", " ", "O", "r", "d", "e", "r">>,
                    <<"G", "e", "t", "-", "O", "r", "d", "e", "r">>}}

\* a topic plugin whose one function, with or without a local developer
\* name, returns "Output:x": a number, an object, a list of strings or a
\* list of objects
RawX == <<"x">>
LocalName == <<"F", "_", "l", "o", "c", "a", "l">>
SourceDocs ==
    {Doc(None, None,
         Some(<<Plugin(<<"P">>, TopicType,
                       Some(<<[Function(FunctionNames[1], None,
                                        Some(IOType((OutputPrefix \o RawX) :> prop)))
                                  EXCEPT !.local_dev_name = local]>>))>>),
         None) :
        local \in {None, Some(LocalName)},
        prop \in {Property(Some(TNumber), None),
                  Property(Some(TObject), None),
                  Property(Some(TArray), Some(Property(Some(TString), None))),
                  Property(Some(TArray), None)}}

\* rules that map the JSON type number to int
TypeRules ==
    RulesDoc(None, None,
        Some([primitive |-> Some((TNumber :> <<"i", "n", "t">>) @@ (TString :> TString)),
              complex |-> None, default_type |-> None]))

VarRulesTexts == {EmptyRulesText, RulesText(TypeRules)}

InitVars ==
    /\ input_json \in {InputText(d) :
                         d \in VarDocs \cup StrayDocs \cup ClashDocs \cup SourceDocs}
    /\ rules_json \in VarRulesTexts
    /\ text = None
    /\ result = None
    /\ previous = None
    /\ iter = EmptyMap
    /\ calls = 0
    /\ before = None
    /\ passes = 0
    /\ detected = None
    /\ arg = None
    /\ rets = <<>>
    /\ NoThreads

SpecVars == InitVars /\ [][NextConvert]_vars

-----------------------------------------------------------------------------
(* Functions checked alone.  arg holds the argument of the next call and   *)
(* rets the calls made; the conversion and the rewriter stay idle.         *)

NoConversion ==
    /\ input_json = NoInput
    /\ result = None
    /\ previous = None
    /\ iter = EmptyMap
    /\ calls = 0

NoRewriting ==
    /\ text = None
    /\ before = None
    /\ passes = 0
    /\ detected = None

(* map_property_type on property trees of depth MaxDepth at most.  The     *)
(* second call maps a property that declares the name the first returned.  *)

UnknownType == <<"d", "a", "t", "e">>

DeclaredTypes ==
    {None} \cup {Some(t) : t \in {TString, TNumber, TInteger, TBoolean,
                                  TObject, TArray, UnknownType}}

RECURSIVE PropertyTrees(_)
PropertyTrees(d) ==
    {Property(t, None) : t \in DeclaredTypes}
    \cup (IF d = 0 THEN {}
         ELSE {Property(Some(TArray), Some(i)) : i \in PropertyTrees(d - 1)})

TRecord == <<"r", "e", "c", "o", "r", "d">>

\* rules that override the array template and the mapping of object
ListRules ==
    RulesDoc(None, None,
        Some([primitive |-> None,
              complex |-> Some((TObject :> TRecord)
                               @@ (TArray :> <<"a", "r", "r", "a", "y", "<">>
                                             \o ItemTypeSlot \o <<">">>)),
              default_type |-> None]))

TypeRulesTexts ==
    {EmptyRulesText, MalformedRulesText, RulesText(TypeRules), RulesText(ListRules)}

InitTypes ==
    /\ arg \in {Some(prop) : prop \in PropertyTrees(MaxDepth)}
    /\ rules_json \in TypeRulesTexts
    /\ rets = <<>>
    /\ NoConversion
    /\ NoRewriting
    /\ NoThreads

MapPropertyType ==
    /\ arg.some
    /\ Len(rets) < MaxCalls
    /\ LET prop == arg.v
           ret == map_property_type(prop.prop_type, prop, parse_rules(rules_json))
       IN /\ rets' = Append(rets, [arg |-> prop, ret |-> ret])
          /\ arg' = Some(Property(Some(ret), None))
    /\ UNCHANGED <<input_json, rules_json, result, previous, iter, calls,
                   text, before, passes, detected, threads, statics, hash_keys>>

NextTypes == MapPropertyType

SpecTypes == InitTypes /\ [][NextTypes]_vars

-----------------------------------------------------------------------------
(* yaml_generator.rs, converter.rs: the settings a rules document          *)
(* overrides field by field.  Each is called once on the parsed rules; an   *)
(* entry of rets names the function called and what it returned.           *)

get_instruction_indicator(rules) ==
    IF /\ rules.some
       /\ rules.v.output_format.some
       /\ rules.v.output_format.v.reasoning.some
       /\ rules.v.output_format.v.reasoning.v.instructions_format.some
       /\ rules.v.output_format.v.reasoning.v.instructions_format.v.indicator.some
    THEN rules.v.output_format.v.reasoning.v.instructions_format.v.indicator.v
    ELSE <<"-", ">">>

\* a line prefix that is overridden only together with the indicator
GetLinePrefixWithIndicator(rules) ==
    IF /\ rules.some
       /\ rules.v.output_format.some
       /\ rules.v.output_format.v.reasoning.some
       /\ rules.v.output_format.v.reasoning.v.instructions_format.some
       /\ rules.v.output_format.v.reasoning.v.instructions_format.v.indicator.some
       /\ rules.v.output_format.v.reasoning.v.instructions_format.v.line_prefix.some
    THEN rules.v.output_format.v.reasoning.v.instructions_format.v.line_prefix.v
    ELSE <<"|">>

get_instruction_line_prefix(rules) ==
    IF /\ rules.some
       /\ rules.v.output_format.some
       /\ rules.v.output_format.v.reasoning.some
       /\ rules.v.output_format.v.reasoning.v.instructions_format.some
       /\ rules.v.output_format.v.reasoning.v.instructions_format.v.line_prefix.some
    THEN rules.v.output_format.v.reasoning.v.instructions_format.v.line_prefix.v
    ELSE <<"|">>

\* <<label, description, instructions>> of the topic selector
get_topic_selector_template(rules) ==
    IF rules.some /\ rules.v.templates.some /\ rules.v.templates.v.topic_selector.some
    THEN LET topic_selector == rules.v.templates.v.topic_selector.v
         IN <<UnwrapOr(topic_selector.label, <<"Topic Selector">>),
              UnwrapOr(topic_selector.description,
                  <<"Welcome the user and determine the appropriate topic based on user input">>),
              UnwrapOr(IF topic_selector.reasoning.some
                       THEN topic_selector.reasoning.v.instructions ELSE None,
                  <<"Select the best tool to call based on conversation history and user's intent.">>)>>
    ELSE <<<<"Topic Selector">>,
           <<"Welcome the user and determine the appropriate topic based on user input">>,
           <<"Select the best tool to call based on conversation history and user's intent.">>>>

Called(fn) == \E k \in DOMAIN rets : rets[k].fn = fn

GetInstructionIndicator ==
    /\ ~Called("get_instruction_indicator")
    /\ rets' = Append(rets, [fn |-> "get_instruction_indicator",
                             ret |-> get_instruction_indicator(parse_rules(rules_json))])
    /\ UNCHANGED <<input_json, rules_json, result, previous, iter, calls,
                   text, before, passes, detected, arg,
                   threads, statics, hash_keys>>

GetInstructionLinePrefix ==
    /\ ~Called("get_instruction_line_prefix")
    /\ rets' = Append(rets, [fn |-> "get_instruction_line_prefix",
                             ret |-> get_instruction_line_prefix(parse_rules(rules_json))])
    /\ UNCHANGED <<input_json, rules_json, result, previous, iter, calls,
                   text, before, passes, detected, arg,
                   threads, statics, hash_keys>>

GetTopicSelectorTemplate ==
    /\ ~Called("get_topic_selector_template")
    /\ rets' = Append(rets, [fn |-> "get_topic_selector_template",
                             ret |-> get_topic_selector_template(parse_rules(rules_json))])
    /\ UNCHANGED <<input_json, rules_json, result, previous, iter, calls,
                   text, before, passes, detected, arg,
                   threads, statics, hash_keys>>

\* the rules documents: every level of every path present or absent
FormatRulesDoc(output_format, templates) ==
    [variable_conversion |-> None, templates |-> templates, type_mappings |-> None,
     output_format |-> output_format]

InstructionsFormats ==
    {[indicator |-> i, line_prefix |-> l] :
        i \in {None, Some(<<"=", ">">>)}, l \in {None, Some(<<">">>)}}

OutputFormats ==
    {None,
     Some([reasoning |-> None]),
     Some([reasoning |-> Some([instructions_format |-> None])])}
    \cup {Some([reasoning |-> Some([instructions_format |-> Some(f)])]) :
             f \in InstructionsFormats}

SelectorTemplates ==
    {[label |-> l, description |-> d, reasoning |-> r] :
        l \in {None, Some(<<"Router">>)},
        d \in {None, Some(<<"Routes the user.">>)},
        r \in {None,
               Some([instructions |-> None, actions |-> None]),
               Some([instructions |-> Some(<<"Pick a topic.">>), actions |-> None])}}

TemplateChoices ==
    {None, Some([topic_selector |-> None, escalation |-> None])}
    \cup {Some([topic_selector |-> Some(t), escalation |-> None]) :
             t \in SelectorTemplates}

FormatRulesTexts ==
    {EmptyRulesText, MalformedRulesText}
    \cup {RulesText(FormatRulesDoc(o, t)) : o \in OutputFormats, t \in TemplateChoices}

InitSettings ==
    /\ rules_json \in FormatRulesTexts
    /\ arg = None
    /\ rets = <<>>
    /\ NoConversion
    /\ NoRewriting
    /\ NoThreads

NextSettings ==
    \/ GetInstructionIndicator
    \/ GetInstructionLinePrefix
    \/ GetTopicSelectorTemplate

SpecSettings == InitSettings /\ [][NextSettings]_vars

-----------------------------------------------------------------------------
(* converter.rs: the instruction text of a plugin's topic.  A sentence of  *)
(* the rules and a line break are single elements of the text.             *)

SecurityKeywords ==
    {<<"o", "f", "f", "_", "t", "o", "p", "i", "c">>,
     <<"o", "f", "f", "t", "o", "p", "i", "c">>,
     <<"a", "m", "b", "i", "g", "u", "o", "u", "s">>,
     <<"g", "e", "n", "e", "r", "a", "l">>}

\* the description of every instruction definition that has one
InstructionParts(definitions, rules) ==
    LET described == SelectSeq(definitions, LAMBDA instr : instr.description.some)
    IN [k \in DOMAIN described |->
           convert_variables_in_text(described[k].description, rules)]

\* the security block, decided on the topic's sanitized name
BuildTopicInstructionsSanitized(plugin, rules) ==
    LET scope_part == IF plugin.scope.some
                      THEN <<convert_variables_in_text(plugin.scope, rules)>>
                      ELSE <<>>
        parts == scope_part
                 \o (IF plugin.instruction_definitions.some
                     THEN InstructionParts(plugin.instruction_definitions.v, rules)
                     ELSE <<>>)
        topic_name == sanitize_topic_name(OrElse(plugin.local_dev_name,
                                                 Some(plugin.name)))
        block == IF /\ \E w \in SecurityKeywords : Contains(topic_name, w)
                    /\ rules.some
                    /\ rules.v.security_rules.some
                    /\ rules.v.security_rules.v.default_rules.some
                    /\ rules.v.security_rules.v.default_rules.v # <<>>
                 THEN <<<<"Rules:">>>>
                      \o [k \in DOMAIN rules.v.security_rules.v.default_rules.v |->
                             <<" ", " ">> \o rules.v.security_rules.v.default_rules.v[k]]
                 ELSE <<>>
    IN IF parts \o block = <<>> THEN <<"Handle user requests appropriately.">>
       ELSE Join(parts \o block, <<"\n">>)

build_topic_instructions(plugin, rules) ==
    LET scope_part == IF plugin.scope.some
                      THEN <<convert_variables_in_text(plugin.scope, rules)>>
                      ELSE <<>>
        parts == scope_part
                 \o (IF plugin.instruction_definitions.some
                     THEN InstructionParts(plugin.instruction_definitions.v, rules)
                     ELSE <<>>)
        topic_name == ToLowercase(UnwrapOr(OrElse(plugin.local_dev_name,
                                                  Some(plugin.name)), <<>>))
        block == IF /\ \E w \in SecurityKeywords : Contains(topic_name, w)
                    /\ rules.some
                    /\ rules.v.security_rules.some
                    /\ rules.v.security_rules.v.default_rules.some
                    /\ rules.v.security_rules.v.default_rules.v # <<>>
                 THEN <<<<"Rules:">>>>
                      \o [k \in DOMAIN rules.v.security_rules.v.default_rules.v |->
                             <<" ", " ">> \o rules.v.security_rules.v.default_rules.v[k]]
                 ELSE <<>>
    IN IF parts \o block = <<>> THEN <<"Handle user requests appropriately.">>
       ELSE Join(parts \o block, <<"\n">>)

BuildTopicInstructions ==
    /\ arg.some
    /\ rets = <<>>
    /\ rets' = <<[arg |-> arg.v,
                  ret |-> build_topic_instructions(arg.v, parse_rules(rules_json))]>>
    /\ UNCHANGED <<input_json, rules_json, result, previous, iter, calls,
                   text, before, passes, detected, arg,
                   threads, statics, hash_keys>>

\* the plugins: names that hold a keyword as written, names that hold one
\* only once sanitized, names that hold none
InstructionNames ==
    {<<"o", "f", "f", "_", "t", "o", "p", "i", "c">>,
     <<"O", "f", "f", "-", "T", "o", "p", "i", "c">>,
     <<"O", "f", "f", " ", "T", "o", "p", "i", "c">>,
     <<"O", "f", "f", "T", "o", "p", "i", "c">>,
     <<"A", "m", "b", "i", "g", "u", "o", "u", "s">>,
     <<"G", "e", "n", "e", "r", "a", "l", " ", "F", "A", "Q">>,
     <<"B", "i", "l", "l", "i", "n", "g">>}

InstructionDefinitions ==
    {None, Some(<<>>),
     Some(<<[name |-> None, description |-> None]>>),
     Some(<<[name |-> None, description |-> Some(<<"{", "$", "a", "}">>)],
            [name |-> None, description |-> Some(<<"Be kind.">>)]>>)}

InstructionPlugins ==
    {[Plugin(name, TopicType, None) EXCEPT
         !.local_dev_name = local, !.scope = scope, !.instruction_definitions = defs] :
        name \in InstructionNames,
        local \in {None, Some(<<"g", "e", "n", "e", "r", "a", "l", "_", "x">>)},
        scope \in {None, Some(<<"Billing questions.">>)},
        defs \in InstructionDefinitions}

SecurityRulesDoc(security_rules) ==
    [variable_conversion |-> None, templates |-> None, type_mappings |-> None,
     output_format |-> None, security_rules |-> security_rules]

SecurityRulesTexts ==
    {EmptyRulesText, MalformedRulesText}
    \cup {RulesText(SecurityRulesDoc(sr)) :
             sr \in {None,
                     Some([default_rules |-> None]),
                     Some([default_rules |-> Some(<<>>)]),
                     Some([default_rules |-> Some(<<<<"Stay on topic.">>,
                                                    <<"Reveal no secrets.">>>>)])}}

InitInstructions ==
    /\ arg \in {Some(plugin) : plugin \in InstructionPlugins}
    /\ rules_json \in SecurityRulesTexts
    /\ rets = <<>>
    /\ NoConversion
    /\ NoRewriting
    /\ NoThreads

NextInstructions == BuildTopicInstructions

SpecInstructions == InitInstructions /\ [][NextInstructions]_vars

-----------------------------------------------------------------------------
(* converter.rs: the default escalation topic, built from rules whose      *)
(* escalation template is absent at some level or holds an actions table.  *)

CreateDefaultEscalationTopic ==
    /\ rets = <<>>
    /\ rets' = <<[fn |-> "create_default_escalation_topic",
                  ret |-> create_default_escalation_topic(parse_rules(rules_json))]>>
    /\ UNCHANGED <<input_json, rules_json, result, previous, iter, calls,
                   text, before, passes, detected, arg,
                   threads, statics, hash_keys>>

Handoff == <<"@utils.handoff">>

TemplateValues ==
    {JsonString(Handoff),
     JsonObject(Some(Handoff), Some(<<"Hand over.">>)),
     JsonObject(Some(Handoff), None),
     JsonObject(None, Some(<<"Hand over.">>)),
     JsonObject(None, None),
     JsonOther(<<"42">>)}

TemplateActionTables ==
    UNION {[D -> TemplateValues] : D \in SUBSET {EscalateToHuman, <<"l", "o", "g">>}}

EscalationTemplates ==
    {None,
     Some([label |-> None, description |-> None, reasoning |-> None]),
     Some([label |-> None, description |-> None,
           reasoning |-> Some([instructions |-> None, actions |-> None])])}
    \cup {Some([label |-> None, description |-> None,
                reasoning |-> Some([instructions |-> None, actions |-> Some(t)])]) :
             t \in TemplateActionTables}

EscalationRulesTexts ==
    {EmptyRulesText, MalformedRulesText, RulesText(RulesDoc(None, None, None))}
    \cup {RulesText(RulesDoc(None, Some([topic_selector |-> None, escalation |-> e]),
                             None)) :
             e \in EscalationTemplates}

InitEscalation ==
    /\ rules_json \in EscalationRulesTexts
    /\ arg = None
    /\ rets = <<>>
    /\ NoConversion
    /\ NoRewriting
    /\ NoThreads

NextEscalation == CreateDefaultEscalationTopic

SpecEscalation == InitEscalation /\ [][NextEscalation]_vars

-----------------------------------------------------------------------------
(* yaml_generator.rs: the serializer applied to an output document whose   *)
(* variable table, connection table and topic table hold zero, one or      *)
(* several entries, or whose one topic holds one action.                   *)

GenerateNgaYaml ==
    /\ arg.some
    /\ rets = <<>>
    /\ rets' = <<[arg |-> arg.v,
                  ret |-> generate_nga_yaml(arg.v, parse_rules(rules_json))]>>
    /\ UNCHANGED <<input_json, rules_json, result, previous, iter, calls,
                   text, before, passes, detected, arg,
                   threads, statics, hash_keys>>

Placeholder == <<"{", "$", "a", "}">>

YamlVariables ==
    UNION {[D -> {[var_type |-> <<"mutable string">>, source |-> None,
                   label |-> None, description |-> Placeholder]}] :
              D \in SUBSET {<<"b">>, <<"B">>, <<"a", "b">>}}

ConnectionKeys == {ConnectionVoice, ConnectionMessaging, <<"c", "o", "n", "n">>}

TopicKeys ==
    {SelectorKey, TopicKeyPrefix \o NEscalation, TopicKeyPrefix \o <<"a">>,
     <<"k", "n", "o", "w", "l", "e", "d", "g", "e">>}

YamlInputs ==
    {None,
     Some([n \in {<<"x">>} |->
              [input_type |-> TString, description |-> Some(Placeholder),
               label |-> None, is_required |-> TRUE, is_user_input |-> FALSE]])}

YamlActions ==
    {[require_user_confirmation |-> c, include_in_progress_indicator |-> ~c,
      progress_indicator_message |-> m, source |-> src,
      target |-> <<"flow://f">>, inputs |-> i, outputs |-> None] :
        c \in BOOLEAN,
        m \in {None, Some(<<"w", "a", "i", "t">>), Some(Placeholder)},
        src \in {None, Some(<<"G", "e", "t", "_", "A">>), Some(<<"1", "7", "2", "W">>)},
        i \in YamlInputs}

YamlOutput(variables, connections, topics) ==
    [system |-> [instructions |-> Placeholder],
     variables |-> variables,
     connections |-> connections,
     topics |-> topics]

YamlOutputs ==
    {YamlOutput(v, c, [k \in D |-> Topic(None, None)]) :
        v \in YamlVariables, c \in SUBSET ConnectionKeys, D \in SUBSET TopicKeys}
    \cup {YamlOutput(EmptyMap, {ConnectionMessaging},
                     [k \in {TopicKeyPrefix \o <<"a">>} |->
                         Topic(None, Some([n \in {<<"f">>} |-> a]))]) :
             a \in YamlActions}

BooleanFormats ==
    {None,
     Some([true_val |-> None, false_val |-> None]),
     Some([true_val |-> Some(<<"y", "e", "s">>), false_val |-> Some(<<"n", "o">>)])}

YamlRulesTexts ==
    {EmptyRulesText}
    \cup {RulesText([variable_conversion |-> None,
                     output_format |->
                         Some([action_definition |-> Some([boolean_format |-> b]),
                               reasoning |-> None])]) :
             b \in BooleanFormats}

InitYaml ==
    /\ arg \in {Some(nga) : nga \in YamlOutputs}
    /\ rules_json \in YamlRulesTexts
    /\ rets = <<>>
    /\ NoConversion
    /\ NoRewriting
    /\ NoThreads

NextYaml == GenerateNgaYaml

SpecYaml == InitYaml /\ [][NextYaml]_vars

-----------------------------------------------------------------------------
(* report_generator.rs: the opaque-identifier heuristic *)

IsAsciiAlphabetic(c) == c \in Range(Lowers) \cup Range(Uppers)
IsAsciiDigit(c) == c \in Digits

\* the heuristic without its last test: any mix of letters and digits
IsAlphanumericIdWithoutDigitTest(target_name) ==
    /\ \E i \in DOMAIN target_name : IsAsciiAlphabetic(target_name[i])
    /\ \E i \in DOMAIN target_name : IsAsciiDigit(target_name[i])
    /\ \A i \in DOMAIN target_name : IsAlphanumeric(target_name[i])

is_alphanumeric_id(target_name) ==
    LET has_letters == \E i \in DOMAIN target_name : IsAsciiAlphabetic(target_name[i])
        has_numbers == \E i \in DOMAIN target_name : IsAsciiDigit(target_name[i])
        has_underscore == Contains(target_name, <<"_">>)
        has_space == Contains(target_name, <<" ">>)
        alphanumeric_only ==
            \A i \in DOMAIN target_name :
                IsAsciiAlphabetic(target_name[i]) \/ IsAsciiDigit(target_name[i])
        starts_with_number == target_name # <<>> /\ IsAsciiDigit(target_name[1])
        has_consecutive_numbers ==
            \E i \in 1..(Len(target_name) - 2) :
                \A j \in i..(i + 2) : IsAsciiDigit(target_name[j])
    IN IF ~has_letters \/ ~has_numbers THEN FALSE
       ELSE IF has_underscore \/ has_space THEN FALSE
       ELSE IF ~alphanumeric_only THEN FALSE
       ELSE starts_with_number \/ has_consecutive_numbers

IdAlphabet == {"a", "Q", "0", "7", "_", " ", "-"}

TargetNames == UNION {[1..n -> IdAlphabet] : n \in 0..MaxIdLen}

InitIdent ==
    /\ arg \in {Some(t) : t \in TargetNames}
    /\ rules_json = EmptyRulesText
    /\ rets = <<>>
    /\ NoConversion
    /\ NoRewriting
    /\ NoThreads

IsAlphanumericId ==
    /\ arg.some
    /\ rets = <<>>
    /\ rets' = <<[arg |-> arg.v, ret |-> is_alphanumeric_id(arg.v)]>>
    /\ UNCHANGED <<input_json, rules_json, result, previous, iter, calls,
                   text, before, passes, detected, arg,
                   threads, statics, hash_keys>>

NextIdent == IsAlphanumericId

SpecIdent == InitIdent /\ [][NextIdent]_vars

-----------------------------------------------------------------------------
(* report_generator.rs: the report.  A topic of the report is its name and *)
(* its actions, an action its name, target and type; labels, descriptions, *)
(* the agent information and the variable list are copied or defaulted     *)
(* field by field and are not represented.  The notes print one table row  *)
(* per entry of the manual-review list, in its order.                      *)

CustomActionTypes ==
    {<<"f", "l", "o", "w">>, <<"a", "p", "e", "x">>,
     ToLowercase(<<"s", "t", "a", "n", "d", "a", "r", "d", "I", "n", "v", "o", "c",
                   "a", "b", "l", "e", "A", "c", "t", "i", "o", "n">>),
     ToLowercase(<<"i", "n", "v", "o", "c", "a", "b", "l", "e", "A", "c", "t", "i",
                   "o", "n">>),
     ToLowercase(<<"g", "e", "n", "e", "r", "a", "t", "e", "P", "r", "o", "m", "p",
                   "t", "R", "e", "s", "p", "o", "n", "s", "e">>),
     ToLowercase(<<"e", "x", "t", "e", "r", "n", "a", "l", "S", "e", "r", "v", "i",
                   "c", "e">>)}

\* a type test that compares the type as written
IsCustomActionTypeExact(action_type) == action_type \in CustomActionTypes

is_custom_action_type(action_type) == ToLowercase(action_type) \in CustomActionTypes

ActionReport(name, target, action_type) ==
    [name |-> name, target |-> target, action_type |-> action_type]

TopicReport(name, actions) == [name |-> name, actions |-> actions]

CustomActionReview(topic, action) ==
    [topic_name |-> topic.name, action_name |-> action.name,
     action_type |-> action.action_type, target_name |-> action.target]

NeedsReview(action) ==
    is_custom_action_type(action.action_type) /\ is_alphanumeric_id(action.target)

analyze_custom_actions_with_alphanumeric_targets(topics) ==
    ConcatAll([t \in 1..Len(topics) |->
        LET flagged == SelectSeq(topics[t].actions, NeedsReview)
        IN [a \in 1..Len(flagged) |-> CustomActionReview(topics[t], flagged[a])]])

TUnknown == <<"u", "n", "k", "n", "o", "w", "n">>
TEscalation == <<"e", "s", "c", "a", "l", "a", "t", "i", "o", "n">>
UtilsEscalate == <<"@utils.escalate">>

FunctionActionReport(func) ==
    ActionReport(UnwrapOr(func.local_dev_name, func.name),
                 UnwrapOr(OrElse(func.invocation_target_name, func.invocation_target_id),
                          func.name),
                 UnwrapOr(func.invocation_target_type, TUnknown))

PluginTopicReport(plugin) ==
    LET functions == UnwrapOr(plugin.functions, <<>>)
    IN TopicReport(UnwrapOr(plugin.local_dev_name, plugin.name),
           [k \in 1..Len(functions) |-> FunctionActionReport(functions[k])]
           \o (IF plugin.can_escalate = Some(TRUE)
               THEN <<ActionReport(EscalateToHuman, UtilsEscalate, TEscalation)>>
               ELSE <<>>))

IsReportedPlugin(plugin) ==
    plugin.plugin_type = TopicType \/ ~plugin.plugin_type.some

SimpleActionReport(action) ==
    ActionReport(UnwrapOr(OrElse(action.name, action.id), <<"unnamed_action">>),
                 UnwrapOr(OrElse(action.target, action.invocation_target), <<"N/A">>),
                 UnwrapOr(action.action_type, TUnknown))

\* format!("{}", index + 1) of an index below ten
IndexText(n) == <<<<"1", "2", "3", "4", "5", "6", "7", "8", "9">>[n]>>

SimpleTopicReport(topic, index) ==
    LET topic_actions == UnwrapOr(topic.actions, <<>>)
    IN TopicReport(UnwrapOr(OrElse(topic.name, topic.id),
                            <<"topic_">> \o IndexText(index)),
           [k \in 1..Len(topic_actions) |-> SimpleActionReport(topic_actions[k])])

extract_topics_from_input(input) ==
    IF input.plugins.some
    THEN LET reported == SelectSeq(input.plugins.v, IsReportedPlugin)
         IN [k \in 1..Len(reported) |-> PluginTopicReport(reported[k])]
    ELSE IF input.topics.some
    THEN [k \in 1..Len(input.topics.v) |-> SimpleTopicReport(input.topics.v[k], k)]
    ELSE <<>>

\* a report that refuses an input without topics
GenerateReportDataStrict(input, output_yaml, metadata) ==
    IF extract_topics_from_input(input) = <<>>
    THEN Err("Failed to generate report data")
    ELSE [ok |-> TRUE,
          topics |-> extract_topics_from_input(input),
          has_variables |-> metadata.has_variables_with_dollar,
          manual_review |-> <<>>]

generate_report_data(input, output_yaml, metadata) ==
    LET topics == extract_topics_from_input(input)
    IN [ok |-> TRUE,
        topics |-> topics,
        has_variables |-> metadata.has_variables_with_dollar,
        manual_review |-> analyze_custom_actions_with_alphanumeric_targets(topics)]

ReportMetadata(has_variables_with_dollar, topic_count, action_count) ==
    [has_variables_with_dollar |-> has_variables_with_dollar,
     topic_count |-> topic_count, action_count |-> action_count]

\* lib.rs generate_report_data(input_json, output_yaml, metadata_json)
lib_generate_report_data(input_text, output_yaml, metadata) ==
    IF input_text.kind # "json" THEN Err("Failed to parse input JSON")
    ELSE generate_report_data(input_text.doc, output_yaml, metadata)

\* the caller reports on the conversion it has just made
GenerateReportData ==
    /\ result.some
    /\ rets = <<>>
    /\ LET r == result.v
           output_yaml == IF r.ok THEN r.yaml ELSE <<>>
           metadata == IF r.ok
                       THEN ReportMetadata(r.has_variables_with_dollar,
                                           r.topic_count, r.action_count)
                       ELSE ReportMetadata(FALSE, 0, 0)
       IN rets' = <<[arg |-> metadata,
                     ret |-> lib_generate_report_data(input_json, output_yaml, metadata)]>>
    /\ UNCHANGED <<input_json, rules_json, result, previous, iter, calls,
                   text, before, passes, detected, arg,
                   threads, statics, hash_keys>>

RecordId ==
    <<"3", "A", "7", "x", "0", "0", "0", "0", "0", "0", "0", "4", "C", "q", "W",
      "E", "A", "U">>
ApiName ==
    <<"G", "e", "t", "_", "I", "n", "v", "o", "i", "c", "e", "_", "B", "y", "_",
      "I", "d">>
TFlow == <<"f", "l", "o", "w">>

Invocable(name, target_type, target_name, target_id) ==
    [Function(name, None, None) EXCEPT !.invocation_target_type = target_type,
                                       !.invocation_target_name = target_name,
                                       !.invocation_target_id = target_id]

ReportFunctions ==
    <<Invocable(<<"G", "e", "t", "C", "a", "s", "e">>, Some(TFlow), None, Some(RecordId)),
      Invocable(<<"G", "e", "t", "I", "n", "v", "o", "i", "c", "e">>,
                Some(<<"F", "l", "o", "w">>), Some(ApiName), Some(RecordId)),
      Invocable(RecordId, None, None, None),
      Invocable(<<"H", "a", "n", "d">>, Some(TEscalation), None, Some(RecordId))>>

ReportPlugins ==
    {[Plugin(<<"C", "a", "s", "e", "s">>, plugin_type, Some(functions))
         EXCEPT !.can_escalate = can_escalate] :
        plugin_type \in {TopicType, None},
        functions \in ListsUpTo(ReportFunctions, MaxFuncs),
        can_escalate \in {None, Some(TRUE)}}

BillingPlugin ==
    Plugin(<<"B", "i", "l", "l", "i", "n", "g">>, TopicType,
           Some(<<Invocable(<<"P", "a", "y">>, Some(<<"F", "l", "o", "w">>),
                            None, Some(RecordId))>>))

ReportActions ==
    <<ActionInput(Some(<<"G", "e", "t", "C", "a", "s", "e">>), Some(TFlow),
                  None, Some(RecordId)),
      ActionInput(Some(<<"G", "o">>), Some(TFlow), Some(ApiName), Some(RecordId)),
      ActionInput(Some(<<"H", "a", "n", "d">>), Some(TEscalation), None, Some(RecordId))>>

ReportDocs ==
    {Doc(None, None, Some(<<p>>), None) : p \in ReportPlugins}
    \cup {Doc(None, None, Some(<<BillingPlugin, p>>), None) : p \in ReportPlugins}
    \cup {Doc(None, None, None,
               Some(<<TopicInput(Some(<<"S", "a", "l", "e", "s">>), Some(actions))>>)) :
             actions \in ListsUpTo(ReportActions, MaxFuncs)}
    \cup {Doc(None, None, None, None)}

InitReport ==
    /\ input_json \in {MalformedInputText} \cup {InputText(d) : d \in ReportDocs}
    /\ rules_json \in TopicRulesTexts
    /\ text = None
    /\ result = None
    /\ previous = None
    /\ iter = EmptyMap
    /\ calls = 0
    /\ before = None
    /\ passes = 0
    /\ detected = None
    /\ arg = None
    /\ rets = <<>>
    /\ NoThreads

NextReport == ConvertAgent \/ GenerateReportData

SpecReport == InitReport /\ [][NextReport]_vars

-----------------------------------------------------------------------------
(* yaml_generator.rs, report_generator.rs: the two identifier heuristics   *)
(* applied to one string, the analyzer's first.                            *)

IsReadableSourceName ==
    /\ arg.some
    /\ Len(rets) = 1
    /\ rets' = Append(rets, [arg |-> arg.v, ret |-> is_readable_source_name(arg.v)])
    /\ UNCHANGED <<input_json, rules_json, result, previous, iter, calls,
                   text, before, passes, detected, arg,
                   threads, statics, hash_keys>>

\* fifteen letters and digits, a letter first and no three digits in a row
FifteenCharacterName ==
    <<"O", "r", "d", "e", "r", "S", "t", "a", "t", "u", "s", "F", "l", "V", "2">>

SourceNames == TargetNames \cup {RecordId, ApiName, FifteenCharacterName}

InitSource ==
    /\ arg \in {Some(t) : t \in SourceNames}
    /\ rules_json = EmptyRulesText
    /\ rets = <<>>
    /\ NoConversion
    /\ NoRewriting
    /\ NoThreads

NextSource == IsAlphanumericId \/ IsReadableSourceName

SpecSource == InitSource /\ [][NextSource]_vars

-----------------------------------------------------------------------------
(* lib.rs, variable_processor.rs, helpers.rs: convert_agent calls running   *)
(* side by side.  A call is followed statement by statement: parsing the   *)
(* input, the placeholder check, the conversion, the serialization.  What  *)
(* the calls have in common is the process: its Lazy<Regex> cells, which    *)
(* once_cell fills on first use, one caller at a time, and the counter     *)
(* std's RandomState draws each new HashMap's hash keys from.  A map's     *)
(* iteration order is fixed by its keys: while the counter is where a      *)
(* fresh process has it, a call's maps have the order they have when the   *)
(* call runs alone; after that the order is any order.                     *)

Callers == 1..MaxThreads

StaticNames ==
    {"DOLLAR_VAR_PATTERN", "VAR_PATTERN_1", "VAR_PATTERN_2", "VAR_PATTERN_3",
     "VAR_PATTERN_4", "MARKDOWN_TAG_RE"}

RewritePatternNames ==
    {"VAR_PATTERN_1", "VAR_PATTERN_2", "VAR_PATTERN_3", "VAR_PATTERN_4"}

\* the source text each cell's closure compiles
PatternSource ==
    [n \in StaticNames |->
        CASE n = "DOLLAR_VAR_PATTERN" -> <<"\\{[!]?\\$[!]?[^}]+\\}|\\{![^@}][^}]*\\}">>
          [] n = "VAR_PATTERN_1" -> <<"\\{!\\$([^}]+)\\}">>
          [] n = "VAR_PATTERN_2" -> <<"\\{\\$!([^}]+)\\}">>
          [] n = "VAR_PATTERN_3" -> <<"\\{\\$([^!}][^}]*)\\}">>
          [] n = "VAR_PATTERN_4" -> <<"\\{!([^@}][^}]*)\\}">>
          [] n = "MARKDOWN_TAG_RE" -> <<"#[A-Za-z]+#">>]

Uninitialised == [value |-> None, inits |-> 0]

\* Lazy::force on each of the named cells: an empty cell runs its closure
Force(cells, names) ==
    [n \in DOMAIN cells |->
        IF n \in names /\ ~cells[n].value.some
        THEN [value |-> Some(PatternSource[n]), inits |-> cells[n].inits + 1]
        ELSE cells[n]]

\* the rules leave detection and rewriting to the built-in patterns
UsesBuiltinPatterns(rules) ==
    ~(/\ rules.some
      /\ rules.v.variable_conversion.some
      /\ \/ rules.v.variable_conversion.v.enabled = Some(FALSE)
         \/ rules.v.variable_conversion.v.patterns.some)

\* the cells detect_and_convert reads: the rewriting patterns for the role
\* and company texts of a plugin input, the tag pattern for the
\* description of each function of a topic plugin
ConversionCells(input, rules) ==
    IF input.plugins.some /\ input.plugins.v # <<>>
    THEN (IF UsesBuiltinPatterns(rules)
             /\ (input.planner_role.some \/ input.planner_company.some)
          THEN RewritePatternNames ELSE {})
         \cup (IF \E p \in DOMAIN input.plugins.v :
                     /\ IsTopicPlugin(input.plugins.v[p])
                     /\ FunctionsOf(input.plugins.v[p]) # <<>>
               THEN {"MARKDOWN_TAG_RE"} ELSE {})
    ELSE {}

Thread(input_text, rules_text, alone) ==
    [pc |-> "parse", input_json |-> input_text, rules_json |-> rules_text,
     alone |-> alone, it |-> EmptyMap, has_variables_with_dollar |-> None,
     nga_output |-> None, ret |-> None]

\* serde_json::from_str(input_json) and parse_rules(rules_json)
ParseInput ==
    \E t \in Callers :
        /\ threads[t].pc = "parse"
        /\ IF threads[t].input_json.kind # "json"
           THEN /\ threads' = [threads EXCEPT
                                  ![t].pc = "done",
                                  ![t].ret = Some(Err("Failed to parse input JSON"))]
                /\ UNCHANGED hash_keys
           ELSE \E it \in IterChoices(threads[t].input_json) :
                   /\ hash_keys = 0 => it = threads[t].alone
                   /\ threads' = [threads EXCEPT ![t].pc = "detect", ![t].it = it]
                   /\ hash_keys' = hash_keys + Cardinality(DOMAIN it)
        /\ UNCHANGED <<input_json, rules_json, result, previous, iter, calls,
                       text, before, passes, detected, arg, rets, statics>>

\* check_for_dollar_variables(input_str, &rules)
CheckForDollarVariables ==
    \E t \in Callers :
        /\ threads[t].pc = "detect"
        /\ LET rules == parse_rules(threads[t].rules_json)
           IN /\ threads' = [threads EXCEPT
                    ![t].pc = "convert",
                    ![t].has_variables_with_dollar =
                        Some(check_for_dollar_variables(
                                 RawText(threads[t].input_json.doc), rules))]
              /\ statics' = Force(statics, IF UsesBuiltinPatterns(rules)
                                           THEN {"DOLLAR_VAR_PATTERN"} ELSE {})
        /\ UNCHANGED <<input_json, rules_json, result, previous, iter, calls,
                       text, before, passes, detected, arg, rets, hash_keys>>

\* detect_and_convert(&input, &rules)
DetectAndConvert ==
    \E t \in Callers :
        /\ threads[t].pc = "convert"
        /\ LET rules == parse_rules(threads[t].rules_json)
               input == threads[t].input_json.doc
           IN /\ threads' = [threads EXCEPT
                    ![t].pc = "yaml",
                    ![t].nga_output =
                        Some(detect_and_convert(input, rules, threads[t].it))]
              /\ statics' = Force(statics, ConversionCells(input, rules))
        /\ UNCHANGED <<input_json, rules_json, result, previous, iter, calls,
                       text, before, passes, detected, arg, rets, hash_keys>>

\* generate_nga_yaml(&nga_output, &rules), the counts and the result object
GenerateYaml ==
    \E t \in Callers :
        /\ threads[t].pc = "yaml"
        /\ LET rules == parse_rules(threads[t].rules_json)
               nga_output == threads[t].nga_output.v
           IN /\ threads' = [threads EXCEPT
                    ![t].pc = "done",
                    ![t].ret =
                        Some([ok |-> TRUE,
                              nga |-> nga_output,
                              yaml |-> generate_nga_yaml(nga_output, rules),
                              has_variables_with_dollar |->
                                  threads[t].has_variables_with_dollar.v,
                              topic_count |-> Cardinality(DOMAIN nga_output.topics),
                              action_count |-> count_actions(nga_output.topics)])]
              /\ statics' = Force(statics, IF UsesBuiltinPatterns(rules)
                                           THEN RewritePatternNames ELSE {})
        /\ UNCHANGED <<input_json, rules_json, result, previous, iter, calls,
                       text, before, passes, detected, arg, rets, hash_keys>>

\* the inputs of the callers: text that does not parse, a minimal input
\* with a placeholder, a topic plugin whose function takes "a" and "Input:a"
ThreadInputs ==
    {MalformedInputText,
     InputText(Doc(Some(<<"{", "$", "a", "}">>), None, None, None)),
     InputText(Doc(Some(<<"{", "$", "a", "}">>), None,
                   Some(<<Plugin(<<"P">>, TopicType,
                                 Some(<<Function(FunctionNames[1],
                                                 Some(IOType(InputProperties)),
                                                 None)>>))>>),
                   None))}

ThreadRulesTexts ==
    {EmptyRulesText, RulesText(RulesDoc(Some(VarConv(Some(FALSE), None)), None, None))}

ThreadStarts ==
    UNION {{Thread(i, r, alone) : r \in ThreadRulesTexts, alone \in IterChoices(i)} :
           i \in ThreadInputs}

InitThreads ==
    /\ threads \in [Callers -> ThreadStarts]
    /\ statics = [n \in StaticNames |-> Uninitialised]
    /\ hash_keys = 0
    /\ rules_json = EmptyRulesText
    /\ arg = None
    /\ rets = <<>>
    /\ NoConversion
    /\ NoRewriting

NextThreads ==
    \/ ParseInput
    \/ CheckForDollarVariables
    \/ DetectAndConvert
    \/ GenerateYaml

SpecThreads == InitThreads /\ [][NextThreads]_vars

-----------------------------------------------------------------------------
(* Claims about the topic table *)

Converted == calls >= 1 /\ input_json.kind = "json" /\ result.some
InputDoc == input_json.doc
OutTopics == result.v.nga.topics

HasPlugins(doc) == doc.plugins.some /\ Len(doc.plugins.v) > 0
HasTopics(doc) == doc.topics.some /\ Len(doc.topics.v) > 0

FourDefaultKeys ==
    {SelectorKey, TopicKeyPrefix \o NEscalation, TopicKeyPrefix \o NOffTopic,
     TopicKeyPrefix \o NAmbiguousQuestion}

\* C1: an input with neither a non-empty plugin list nor a non-empty topic
\* list converts successfully, whatever the rules, and its topics are exactly
\* the selector, escalation, off_topic and ambiguous_question.
C1_MinimalInputGetsFourTopics ==
    (Converted /\ ~HasPlugins(InputDoc) /\ ~HasTopics(InputDoc))
    => (result.v.ok /\ DOMAIN OutTopics = FourDefaultKeys)

C1_Witness ==
    /\ Converted /\ ~HasPlugins(InputDoc) /\ ~HasTopics(InputDoc)
    /\ InputDoc.plugins = Some(<<>>)
    /\ rules_json = RulesText(TemplateRules)
    /\ result.v.ok /\ DOMAIN OutTopics = FourDefaultKeys

\* the keys of the table in which one of the words occurs, case-insensitively
KeysContaining(topics, words) ==
    {key \in DOMAIN topics :
        \E w \in words : Contains(ToLowercase(key), ToLowercase(w))}

SelectorKeys(topics) == {key \in DOMAIN topics : StartsWith(key, StartAgentPrefix)}

\* an entry is the injected default when it sits under the default's key
\* and carries no action definitions
IsInjectedDefault(topics, name) ==
    /\ (TopicKeyPrefix \o name) \in DOMAIN topics
    /\ topics[TopicKeyPrefix \o name].actions = None

Purposes ==
    {[words |-> {NEscalation}, default |-> NEscalation],
     [words |-> {NOffTopic, NOfftopic}, default |-> NOffTopic],
     [words |-> {NAmbiguous}, default |-> NAmbiguousQuestion]}

\* C2: every successful conversion has exactly one topic selector and, for
\* each of escalation, off_topic/offtopic and ambiguous, at least one topic
\* key containing the word; the default is injected only when no other key
\* contains it.
C2_SelectorAndDefaultsPresent ==
    (Converted /\ result.v.ok)
    => /\ Cardinality(SelectorKeys(OutTopics)) = 1
       /\ \A pu \in Purposes :
            /\ KeysContaining(OutTopics, pu.words) # {}
            /\ IsInjectedDefault(OutTopics, pu.default)
               => KeysContaining(OutTopics, pu.words) = {TopicKeyPrefix \o pu.default}

C2_Witness ==
    /\ Converted /\ result.v.ok /\ HasPlugins(InputDoc)
    /\ ~IsInjectedDefault(OutTopics, NEscalation)
    /\ Cardinality(KeysContaining(OutTopics, {NEscalation})) = 2
    /\ IsInjectedDefault(OutTopics, NAmbiguousQuestion)

\* C3 as stated: each of the three purposes is matched by exactly one key of
\* the output, whatever topics the input defines.
C3_ExactlyOnePerPurpose ==
    (Converted /\ result.v.ok)
    => \A pu \in Purposes : Cardinality(KeysContaining(OutTopics, pu.words)) = 1

\* the topic keys the input's own plugins or topics give rise to
SynthesizedKeys(doc) ==
    IF HasPlugins(doc)
    THEN {TopicKeyPrefix \o PluginTopicName(doc.plugins.v[p]) :
             p \in {q \in DOMAIN doc.plugins.v : IsTopicPlugin(doc.plugins.v[q])}}
    ELSE IF HasTopics(doc)
    THEN {TopicKeyPrefix \o SimpleTopicName(doc.topics.v[k]) : k \in DOMAIN doc.topics.v}
    ELSE {}

SynthesizedContaining(doc, words) ==
    {key \in SynthesizedKeys(doc) :
        \E w \in words : Contains(ToLowercase(key), ToLowercase(w))}

\* C3 amended: the keys matching a purpose are the input's own matching
\* topics, all of them, when it has any, and the one injected default
\* otherwise: a default never comes on top of a matching topic.
C3_DefaultsNeverDuplicate ==
    (Converted /\ result.v.ok)
    => \A pu \in Purposes :
          KeysContaining(OutTopics, pu.words) =
              IF SynthesizedContaining(InputDoc, pu.words) # {}
              THEN SynthesizedContaining(InputDoc, pu.words)
              ELSE {TopicKeyPrefix \o pu.default}

C3_Witness ==
    /\ Converted /\ result.v.ok
    /\ Cardinality(SynthesizedContaining(InputDoc, {NEscalation})) = 2
    /\ KeysContaining(OutTopics, {NEscalation})
           = SynthesizedContaining(InputDoc, {NEscalation})

\* C4: a non-empty plugin list selects the capability-bundle converter even
\* when topics are present too; otherwise a non-empty topic list selects the
\* pre-structured converter; otherwise the minimal one runs.
C4_DetectionOrder ==
    (Converted /\ result.v.ok)
    => result.v.nga.converter =
          IF HasPlugins(InputDoc) THEN "convert_agentforce_format"
          ELSE IF HasTopics(InputDoc) THEN "convert_simple_format"
          ELSE "convert_generic_format"

C4_Witness ==
    /\ Converted /\ result.v.ok
    /\ HasPlugins(InputDoc) /\ HasTopics(InputDoc)
    /\ result.v.nga.converter = "convert_agentforce_format"

-----------------------------------------------------------------------------
(* Claims about the variables table and the output text *)

\* C5: converting the same input with the same rules twice yields the same
\* output text, whatever order the property maps are iterated in.
C5_SameOutputTwice ==
    (calls >= 2 /\ result.v.ok /\ previous.v.ok)
    => result.v.yaml = previous.v.yaml

OutVariables == result.v.nga.variables

\* the cleaned names one side of the input's functions produces
SideNames(doc, side) ==
    LET walk == WalkOrder(doc.plugins.v, iter)
    IN {CleanVariableName(walk[i].prop_name,
            IF side = "input" THEN InputPrefix ELSE OutputPrefix) :
          i \in {j \in DOMAIN walk : walk[j].side = side}} \ {<<>>}

\* C6 as stated: a cleaned name that both an input-side and an output-side
\* property produce is stored as mutable and without a source reference.
C6_InputSideAlwaysWins ==
    (Converted /\ result.v.ok /\ HasPlugins(InputDoc))
    => \A name \in SideNames(InputDoc, "input") \cap SideNames(InputDoc, "output") :
          /\ StartsWith(OutVariables[name].var_type, MutablePrefix)
          /\ OutVariables[name].source = None

\* the definition the walk's i-th property gives its cleaned name
WalkName(walk, i) ==
    CleanVariableName(walk[i].prop_name,
        IF walk[i].side = "input" THEN InputPrefix ELSE OutputPrefix)
WalkDefinition(walk, i, rules) ==
    IF walk[i].side = "input" THEN InputVariable(walk[i], WalkName(walk, i), rules)
    ELSE OutputVariable(walk[i], WalkName(walk, i), rules)
FirstOccurrence(walk, name) ==
    CHOOSE i \in DOMAIN walk :
        WalkName(walk, i) = name /\ \A j \in 1..(i - 1) : WalkName(walk, j) # name

\* C6 amended: the table holds, for every cleaned name, the definition of
\* its first occurrence in walk order (plugins in order, functions in order,
\* a function's input side before its output side); the input side wins
\* exactly when it is walked first.
C6_FirstOccurrenceWins ==
    (Converted /\ result.v.ok /\ HasPlugins(InputDoc))
    => LET walk == WalkOrder(InputDoc.plugins.v, iter)
       IN /\ DOMAIN OutVariables = {WalkName(walk, i) : i \in DOMAIN walk} \ {<<>>}
          /\ \A name \in DOMAIN OutVariables :
                OutVariables[name] =
                    WalkDefinition(walk, FirstOccurrence(walk, name),
                                   parse_rules(rules_json))

C6_Witness ==
    /\ Converted /\ result.v.ok /\ HasPlugins(InputDoc)
    /\ RawA \in SideNames(InputDoc, "input") \cap SideNames(InputDoc, "output")
    /\ StartsWith(OutVariables[RawA].var_type, LinkedPrefix)
    /\ OutVariables[RawA].source.some

-----------------------------------------------------------------------------
(* Claims about the rules text *)

\* C7: a rules text never makes conversion fail, and an unparseable rules
\* text gives the result that the same call gives with no rules.
C7_MalformedRulesAreAbsentRules ==
    (calls >= 1 /\ result.some)
    => /\ input_json.kind = "json" => result.v.ok
       /\ rules_json = MalformedRulesText
          => result.v = convert_agent(input_json, EmptyRulesText, iter)

C7_Witness ==
    /\ calls >= 1 /\ result.some /\ result.v.ok
    /\ rules_json = MalformedRulesText
    /\ result.v.has_variables_with_dollar
    /\ result.v = convert_agent(input_json, EmptyRulesText, iter)

-----------------------------------------------------------------------------
(* Claims about the placeholder rewriter *)

NoRulesInForce == ~parse_rules(rules_json).some

LegacyLeft(s) == \E k \in DOMAIN BuiltinOrder : IsMatch(BuiltinOrder[k], s)

\* the text before the first "{" and the text after the last "}"
OutsideBefore(s) ==
    IF \A i \in DOMAIN s : s[i] # "{" THEN s
    ELSE SubSeq(s, 1, (CHOOSE i \in DOMAIN s :
                          s[i] = "{" /\ \A j \in 1..(i - 1) : s[j] # "{") - 1)
OutsideAfter(s) ==
    IF \A i \in DOMAIN s : s[i] # "}" THEN s
    ELSE SubSeq(s, (CHOOSE i \in DOMAIN s :
                       s[i] = "}" /\ \A j \in (i + 1)..Len(s) : s[j] # "}") + 1, Len(s))
EndsWith(s, p) == Len(s) >= Len(p) /\ SubSeq(s, Len(s) - Len(p) + 1, Len(s)) = p

\* C8: with no rules, one rewriting pass maps absent text to the empty
\* string, leaves no occurrence of the four legacy syntaxes behind, and
\* changes nothing outside the placeholders: text without a placeholder is
\* returned as is, and so is what precedes the first "{" and follows the
\* last "}".
C8_RewritesEveryLegacyOccurrence ==
    (NoRulesInForce /\ passes = 1)
    => IF ~before.some THEN text = Some(<<>>)
       ELSE /\ ~LegacyLeft(text.v)
            /\ ~LegacyLeft(before.v) => text = before
            /\ StartsWith(text.v, OutsideBefore(before.v))
            /\ EndsWith(text.v, OutsideAfter(before.v))

\* C9: with no rules, a second rewriting pass changes nothing, and
\* detection is false on rewritten text.
C9_RewriteIsIdempotent ==
    /\ (NoRulesInForce /\ passes >= 2) => text = before
    /\ (NoRulesInForce /\ passes >= 1 /\ detected.some) => detected.v = FALSE

\* the patterns the rules put in force for rewriting: none when the flag is
\* explicitly false, the valid custom ones when a list is supplied, the four
\* built-in ones otherwise
PatternsInForce(rules) ==
    LET vc == IF rules.some THEN rules.v.variable_conversion ELSE None
        Valid(pd) == RegexNew(pd.pattern).some
    IN IF vc.some /\ vc.v.enabled = Some(FALSE) THEN {}
       ELSE IF vc.some /\ vc.v.patterns.some
       THEN {RegexNew(pd.pattern).v : pd \in Range(SelectSeq(vc.v.patterns.v, Valid))}
       ELSE Range(BuiltinOrder)

\* C10: detection is true exactly when a pattern that rewriting applies
\* matches the text, and with the flag false rewriting is the identity.
C10_DetectionUsesRewritingPatterns ==
    /\ detected.some
       => detected.v = (\E re \in PatternsInForce(parse_rules(rules_json)) :
                            IsMatch(re, text.v))
    /\ (passes >= 1 /\ before.some /\ PatternsInForce(parse_rules(rules_json)) = {})
       => text = before

-----------------------------------------------------------------------------
(* Claims about the type mapping *)

\* the mapped type the default mappings owe a property tree
RECURSIVE ExpectedDefaultType(_)
ExpectedDefaultType(prop) ==
    LET t == UnwrapOr(prop.prop_type, TObject)
    IN IF t = TArray
       THEN <<"l", "i", "s", "t", "[">>
            \o (IF prop.items.some THEN ExpectedDefaultType(prop.items.v) ELSE TObject)
            \o <<"]">>
       ELSE IF t \in {TString, TNumber, TBoolean} THEN t
       ELSE IF t = TInteger THEN TNumber
       ELSE TObject

DeclaresPrimitive(prop) ==
    prop.prop_type.some /\ prop.prop_type.v \in {TString, TNumber, TInteger, TBoolean}

\* C11: with default rules every call of the type mapping on a finitely
\* nested property tree returns, and returns the type the tree owes:
\* arrays nest as list[...] around the mapped item type, an absent type is
\* object, and a primitive name maps to a primitive name (integer to
\* number) that, declared in turn, maps to itself.
C11_TypeMappingRecursive ==
    parse_rules(rules_json) = None =>
        \A k \in DOMAIN rets :
            /\ rets[k].ret = ExpectedDefaultType(rets[k].arg)
            /\ DeclaresPrimitive(rets[k].arg) =>
                  /\ rets[k].ret \in {TString, TNumber, TBoolean}
                  /\ k < Len(rets) => rets[k + 1].ret = rets[k].ret

C11_Witness ==
    /\ parse_rules(rules_json) = None
    /\ Len(rets) = 2
    /\ rets[1].arg = Property(Some(TArray),
                         Some(Property(Some(TArray), Some(Property(Some(TString), None)))))
    /\ rets[1].ret = <<"l", "i", "s", "t", "[", "l", "i", "s", "t", "[">>
                     \o TString \o <<"]", "]">>

\* the list-format template the rules in force resolve to
ResolvedListFormat(rules) ==
    LET tm == TypeMappingsOf(rules)
    IN IF tm.some /\ tm.v.complex.some /\ TArray \in DOMAIN tm.v.complex.v
       THEN tm.v.complex.v[TArray] ELSE ListFormat

\* C20: a property declared as array maps to the rule-resolved list-format
\* template with the mapped item type substituted; an absent item
\* definition counts as an item of type object, mapped through the
\* rule-resolved maps like any other.
C20_ArrayUsesResolvedTemplate ==
    \A k \in DOMAIN rets :
        LET prop == rets[k].arg
            rules == parse_rules(rules_json)
            items == IF prop.items.some THEN prop.items.v ELSE Property(None, None)
        IN prop.prop_type = Some(TArray) =>
              rets[k].ret =
                  Replace(ResolvedListFormat(rules), ItemTypeSlot,
                          map_property_type(Some(UnwrapOr(items.prop_type, TObject)),
                                            items, rules))

ListOpen == <<"l", "i", "s", "t", "[">>

\* the mapped type of the items of an array property that defines its items
MappedItemType(prop, rules) ==
    map_property_type(Some(UnwrapOr(prop.items.v.prop_type, TObject)),
                      prop.items.v, rules)

\* C21 as stated: whatever the rules, a property declared as array maps to
\* list[<itemType>], <itemType> being the mapped type of its items (object
\* for an absent item definition).
C21_ArrayIsAlwaysList ==
    \A k \in DOMAIN rets :
        LET prop == rets[k].arg
            rules == parse_rules(rules_json)
        IN prop.prop_type = Some(TArray) =>
              rets[k].ret = ListOpen
                            \o (IF prop.items.some THEN MappedItemType(prop, rules)
                                ELSE map_property_type(None, Property(None, None), rules))
                            \o <<"]">>

\* C21 amended: an array property that defines its items maps to the array
\* template of the rules in force with the mapped item type in its slot, at
\* every depth; that is list[<itemType>] when the rules give no template of
\* their own, and the rules' own form when they do.
C21_ArrayFollowsTemplateInForce ==
    \A k \in DOMAIN rets :
        LET prop == rets[k].arg
            rules == parse_rules(rules_json)
        IN (prop.prop_type = Some(TArray) /\ prop.items.some) =>
              /\ rets[k].ret = Replace(ResolvedListFormat(rules), ItemTypeSlot,
                                       MappedItemType(prop, rules))
              /\ ResolvedListFormat(rules) = ListFormat
                 => rets[k].ret = ListOpen \o MappedItemType(prop, rules) \o <<"]">>

\* under rules whose template is array<{itemType}>, an array of arrays of
\* strings
C21_Witness ==
    /\ rules_json = RulesText(ListRules)
    /\ Len(rets) >= 1
    /\ rets[1].arg = Property(Some(TArray),
                         Some(Property(Some(TArray), Some(Property(Some(TString), None)))))
    /\ rets[1].ret = <<"a", "r", "r", "a", "y", "<", "a", "r", "r", "a", "y", "<">>
                     \o TString \o <<">", ">">>

-----------------------------------------------------------------------------
(* Claims about the report *)

Letters == Range(Lowers) \cup Range(Uppers)

\* what makes a target name look like an opaque identifier
LooksOpaque(s) ==
    /\ Range(s) \cap Letters # {}
    /\ Range(s) \cap Digits # {}
    /\ "_" \notin Range(s)
    /\ " " \notin Range(s)
    /\ Range(s) \subseteq Letters \cup Digits
    /\ \/ s[1] \in Digits
       \/ \E i \in 1..(Len(s) - 2) : {s[i], s[i + 1], s[i + 2]} \subseteq Digits

\* C12: the heuristic answers true exactly for a target that has a letter
\* and a digit, no underscore, no space, alphanumeric characters only, and
\* a leading digit or a run of three digits.
C12_HeuristicExact ==
    \A k \in DOMAIN rets : rets[k].ret = LooksOpaque(rets[k].arg)

\* a name that passes through its run of digits, not through its start
C12_Witness ==
    /\ Len(rets) = 1
    /\ rets[1].arg = <<"a", "0", "7", "0">>
    /\ rets[1].ret = TRUE

Reported == rets # <<>> /\ rets[1].ret.ok
Report == rets[1].ret

CustomTypeNames ==
    {<<"f", "l", "o", "w">>, <<"a", "p", "e", "x">>,
     <<"s", "t", "a", "n", "d", "a", "r", "d", "I", "n", "v", "o", "c", "a", "b",
       "l", "e", "A", "c", "t", "i", "o", "n">>,
     <<"i", "n", "v", "o", "c", "a", "b", "l", "e", "A", "c", "t", "i", "o", "n">>,
     <<"g", "e", "n", "e", "r", "a", "t", "e", "P", "r", "o", "m", "p", "t", "R",
       "e", "s", "p", "o", "n", "s", "e">>,
     <<"e", "x", "t", "e", "r", "n", "a", "l", "S", "e", "r", "v", "i", "c", "e">>}

\* the report's actions in topic then action order, each with its topic
ReportedActions(topics) ==
    ConcatAll([t \in 1..Len(topics) |->
        [a \in 1..Len(topics[t].actions) |->
            [topic_name |-> topics[t].name,
             action_name |-> topics[t].actions[a].name,
             action_type |-> topics[t].actions[a].action_type,
             target_name |-> topics[t].actions[a].target]]])

OwesReview(e) ==
    /\ \E t \in CustomTypeNames : ToLowercase(e.action_type) = ToLowercase(t)
    /\ LooksOpaque(e.target_name)

\* C13: the manual-review list is the report's actions, in topic then
\* action order, whose type is one of the custom invocation types without
\* regard to case and whose target looks like an opaque identifier; each
\* entry carries the topic name, action name, type and target.
C13_ManualReviewExact ==
    Reported => Report.manual_review = SelectSeq(ReportedActions(Report.topics), OwesReview)

\* a flow action on a record id is listed next to a flow action on an API
\* name and an escalation action on a record id that are not
C13_Witness ==
    /\ Reported
    /\ Len(Report.manual_review) = 1
    /\ Report.manual_review[1].action_type = <<"F", "l", "o", "w">>
    /\ Report.manual_review[1].target_name = RecordId
    /\ \E t \in DOMAIN Report.topics :
          /\ \E a \in DOMAIN Report.topics[t].actions :
                Report.topics[t].actions[a].target = ApiName
          /\ \E a \in DOMAIN Report.topics[t].actions :
                /\ Report.topics[t].actions[a].action_type = TEscalation
                /\ Report.topics[t].actions[a].target = RecordId

-----------------------------------------------------------------------------
(* Claims about the topic selector's transition map *)

SelectorActions == OutTopics[SelectorKey].reasoning.actions.v

\* the topic a transition target names, for a target of the form
\* "@utils.transition to @topic.X"
TransitionTopic(target) ==
    SubSeq(target, Len(TransitionPrefix) + 1, Len(target))

\* C17: every entry of the selector's transition map whose target is
\* "@utils.transition to @topic.X" points at a topic of the output: the
\* topic table has the key "topic X".
C17_TransitionsPointAtTopics ==
    (Converted /\ result.v.ok)
    => \A key \in DOMAIN SelectorActions :
          StartsWith(SelectorActions[key].target, TransitionPrefix)
          => (TopicKeyPrefix \o TransitionTopic(SelectorActions[key].target))
                 \in DOMAIN OutTopics

\* the sanitized names of the topics the input gives rise to
SynthesizedNames(doc) ==
    IF HasPlugins(doc)
    THEN {PluginTopicName(doc.plugins.v[p]) :
             p \in {q \in DOMAIN doc.plugins.v : IsTopicPlugin(doc.plugins.v[q])}}
    ELSE IF HasTopics(doc)
    THEN {SimpleTopicName(doc.topics.v[k]) : k \in DOMAIN doc.topics.v}
    ELSE {}

\* the transitions the rules' selector template defines
RuleTransitions(rules) ==
    IF rules.some /\ rules.v.templates.some
       /\ rules.v.templates.v.topic_selector.some
       /\ rules.v.templates.v.topic_selector.v.reasoning.some
       /\ rules.v.templates.v.topic_selector.v.reasoning.v.actions.some
    THEN rules.v.templates.v.topic_selector.v.reasoning.v.actions.v
    ELSE EmptyMap

RequiredTransitions == {NEscalation, NOffTopic, NAmbiguousQuestion}

\* C18: the selector's transition map has, for every topic-type bundle (or
\* input topic), the entry go_to_<sanitized name> that transitions to that
\* topic, and always has go_to_escalation, go_to_off_topic and
\* go_to_ambiguous_question; each of these three is the synthesized entry
\* when a topic has that name, else the rules' template entry when the
\* rules define the key, else the built-in entry.
C18_SelectorTransitionMap ==
    (Converted /\ result.v.ok)
    => LET names == SynthesizedNames(InputDoc)
           ruled == RuleTransitions(parse_rules(rules_json))
       IN /\ \A n \in names :
                /\ (GoToPrefix \o n) \in DOMAIN SelectorActions
                /\ SelectorActions[GoToPrefix \o n] = Transition(TransitionPrefix \o n)
          /\ \A d \in RequiredTransitions :
                /\ (GoToPrefix \o d) \in DOMAIN SelectorActions
                /\ SelectorActions[GoToPrefix \o d] =
                      IF d \in names THEN Transition(TransitionPrefix \o d)
                      ELSE IF (GoToPrefix \o d) \in DOMAIN ruled
                      THEN Transition(TemplateTarget(ruled[GoToPrefix \o d]))
                      ELSE Transition(TransitionPrefix \o d)

\* a bundle named Escalation under rules that redirect go_to_escalation: the
\* synthesized entry stands; the two other keys are built in
C18_Witness ==
    /\ Converted /\ result.v.ok /\ HasPlugins(InputDoc)
    /\ NEscalation \in SynthesizedNames(InputDoc)
    /\ (GoToPrefix \o NEscalation) \in DOMAIN RuleTransitions(parse_rules(rules_json))
    /\ SelectorActions[GoToPrefix \o NEscalation]
           = Transition(TransitionPrefix \o NEscalation)
    /\ SelectorActions[GoToPrefix \o NOffTopic] = Transition(TransitionPrefix \o NOffTopic)
    /\ Cardinality(DOMAIN SelectorActions) > 3

-----------------------------------------------------------------------------
(* Claims about where the variables come from *)

\* the cleaned names the properties of the topic-type plugins' functions give
TopicTypeNames(doc) ==
    UNION {UNION {
        {CleanVariableName(n, InputPrefix) :
            n \in DOMAIN PropertiesOf(FunctionsOf(doc.plugins.v[p])[f].input_type)}
        \cup {CleanVariableName(n, OutputPrefix) :
            n \in DOMAIN PropertiesOf(FunctionsOf(doc.plugins.v[p])[f].output_type)} :
        f \in DOMAIN FunctionsOf(doc.plugins.v[p])} :
      p \in {q \in DOMAIN doc.plugins.v : IsTopicPlugin(doc.plugins.v[q])}}

\* C19: every entry of the variables table comes from a property of a
\* function of a topic-type plugin; a plugin that is not tagged as a topic
\* contributes no variable.
C19_VariablesOnlyFromTopicBundles ==
    (Converted /\ result.v.ok /\ HasPlugins(InputDoc))
    => DOMAIN OutVariables \subseteq TopicTypeNames(InputDoc)

-----------------------------------------------------------------------------
(* Claims about rule resolution *)

\* the value a document holds at the end of a path of optional fields
RECURSIVE Lookup(_, _)
Lookup(opt, path) ==
    IF ~opt.some THEN None
    ELSE IF path = <<>> THEN opt
    ELSE Lookup(opt.v[Head(path)], Tail(path))

\* the five settings: the call that resolves each, the part of the call's
\* result it is, its path in the rules and its built-in default
Settings ==
    {[fn |-> "get_instruction_indicator", part |-> 0,
      path |-> <<"output_format", "reasoning", "instructions_format", "indicator">>,
      default |-> <<"-", ">">>],
     [fn |-> "get_instruction_line_prefix", part |-> 0,
      path |-> <<"output_format", "reasoning", "instructions_format", "line_prefix">>,
      default |-> <<"|">>],
     [fn |-> "get_topic_selector_template", part |-> 1,
      path |-> <<"templates", "topic_selector", "label">>,
      default |-> <<"Topic Selector">>],
     [fn |-> "get_topic_selector_template", part |-> 2,
      path |-> <<"templates", "topic_selector", "description">>,
      default |->
          <<"Welcome the user and determine the appropriate topic based on user input">>],
     [fn |-> "get_topic_selector_template", part |-> 3,
      path |-> <<"templates", "topic_selector", "reasoning", "instructions">>,
      default |->
          <<"Select the best tool to call based on conversation history and user's intent.">>]}

ResolvedPart(call, part) == IF part = 0 THEN call.ret ELSE call.ret[part]

\* C16: each of the indicator, the line prefix and the selector template's
\* label, description and instruction text resolves to the rules' value
\* when its field is present at every level of its path and to its
\* built-in default otherwise, whatever else the rules hold.
C16_FieldsResolveIndependently ==
    \A k \in DOMAIN rets : \A s \in Settings :
        s.fn = rets[k].fn
        => ResolvedPart(rets[k], s.part) =
              UnwrapOr(Lookup(parse_rules(rules_json), s.path), s.default)

\* rules that override the indicator and the template's label and nothing
\* else: the line prefix, the description and the instructions are defaults
C16_Witness ==
    /\ Len(rets) = 3
    /\ \E k \in DOMAIN rets :
          rets[k].fn = "get_instruction_indicator" /\ rets[k].ret = <<"=", ">">>
    /\ \E k \in DOMAIN rets :
          rets[k].fn = "get_instruction_line_prefix" /\ rets[k].ret = <<"|">>
    /\ \E k \in DOMAIN rets :
          /\ rets[k].fn = "get_topic_selector_template"
          /\ rets[k].ret[1] = <<"Router">>
          /\ rets[k].ret[2] # <<"Routes the user.">>
          /\ rets[k].ret[3] # <<"Pick a topic.">>

-----------------------------------------------------------------------------
(* Claims about calls running side by side *)

\* C15: whatever the interleaving, a finished call has returned what the
\* same call returns when it runs alone, and every built-in pattern cell
\* has been initialised at most once and holds its one compiled pattern.
C15_CallsShareNoMutableState ==
    /\ \A t \in DOMAIN threads :
          threads[t].pc = "done"
          => threads[t].ret = Some(convert_agent(threads[t].input_json,
                                                 threads[t].rules_json,
                                                 threads[t].alone))
    /\ \A n \in DOMAIN statics :
          /\ statics[n].inits <= 1
          /\ statics[n].value.some => statics[n].value.v = PatternSource[n]

-----------------------------------------------------------------------------
(* Claims about a topic's instruction text *)

\* the security sentences the rules in force resolve to
ResolvedSecurityRules(rules) ==
    IF rules.some /\ rules.v.security_rules.some
       /\ rules.v.security_rules.v.default_rules.some
    THEN rules.v.security_rules.v.default_rules.v ELSE <<>>

\* "Rules:" and the sentences, one per line, indented by two spaces
RulesBlock(sentences) ==
    Join(<<<<"Rules:">>>> \o [k \in DOMAIN sentences |-> <<" ", " ">> \o sentences[k]],
         <<"\n">>)

\* C22: the instruction text of a plugin's topic ends with the Rules: block
\* exactly when the plugin's sanitized name contains off_topic, offtopic,
\* ambiguous or general and the resolved sentence list is not empty; and
\* otherwise holds no "Rules:" line.
C22_RulesBlockBySanitizedName ==
    \A k \in DOMAIN rets :
        LET plugin == rets[k].arg
            sentences == ResolvedSecurityRules(parse_rules(rules_json))
            owed == /\ \E w \in SecurityKeywords : Contains(PluginTopicName(plugin), w)
                    /\ sentences # <<>>
        IN IF owed THEN EndsWith(rets[k].ret, RulesBlock(sentences))
           ELSE \A i \in DOMAIN rets[k].ret : rets[k].ret[i] # "Rules:"

-----------------------------------------------------------------------------
(* Claims about the actions of a topic *)

\* C23: the topic of every topic-type plugin has as many detailed actions
\* as the plugin has functions, also when functions share a sanitized name.
C23_OneActionPerFunction ==
    (Converted /\ result.v.ok /\ HasPlugins(InputDoc))
    => \A p \in DOMAIN InputDoc.plugins.v :
          LET plugin == InputDoc.plugins.v[p]
              key == TopicKeyPrefix \o PluginTopicName(plugin)
          IN IsTopicPlugin(plugin)
             => /\ key \in DOMAIN OutTopics
                /\ OutTopics[key].actions.some
                /\ Cardinality(DOMAIN OutTopics[key].actions.v)
                       = Len(FunctionsOf(plugin))

-----------------------------------------------------------------------------
(* Claims about a variable's category and source *)

\* C24: every entry of the variables table has the category and source its
\* property owes it: an input property is mutable without a source; an
\* output property whose mapped type is or contains "object" is mutable
\* without a source, and any other output property is linked with the
\* source @action.<function's local developer name, else its name>.<raw
\* property name>.
C24_CategoryAndSource ==
    (Converted /\ result.v.ok /\ HasPlugins(InputDoc))
    => LET walk == WalkOrder(InputDoc.plugins.v, iter)
       IN \A name \in DOMAIN OutVariables :
             LET e == walk[FirstOccurrence(walk, name)]
                 mapped == map_property_type(e.prop.prop_type, e.prop,
                                             parse_rules(rules_json))
                 function_identifier ==
                     IF e.func.local_dev_name.some THEN e.func.local_dev_name.v
                     ELSE e.func.name
             IN IF e.side = "input" \/ Contains(mapped, TObject)
                THEN /\ OutVariables[name].var_type = MutablePrefix \o mapped
                     /\ OutVariables[name].source = None
                ELSE /\ OutVariables[name].var_type = LinkedPrefix \o mapped
                     /\ OutVariables[name].source =
                            Some(<<"@", "a", "c", "t", "i", "o", "n", ".">>
                                 \o function_identifier \o <<".">> \o e.prop_name)

\* a list of strings returned by a function with a local developer name
C24_Witness ==
    /\ Converted /\ result.v.ok /\ HasPlugins(InputDoc)
    /\ RawX \in DOMAIN OutVariables
    /\ OutVariables[RawX].var_type
           = LinkedPrefix \o <<"l", "i", "s", "t", "[">> \o TString \o <<"]">>
    /\ OutVariables[RawX].source
           = Some(<<"@", "a", "c", "t", "i", "o", "n", ".">> \o LocalName \o <<".">>
                  \o OutputPrefix \o RawX)

-----------------------------------------------------------------------------
(* Claims about the default escalation topic *)

\* a template value that is a string, or an object with a target, and the
\* transition it stands for
IsPlainAction(value) ==
    value.kind = "string" \/ (value.kind = "object" /\ value.target.some)

PlainAction(value) ==
    IF value.kind = "string"
    THEN [target |-> value.v, description |-> None, with_params |-> None]
    ELSE [target |-> value.target.v, description |-> value.description,
          with_params |-> None]

\* C25: the default escalation topic has the transitions of the rules'
\* escalation template and escalate_to_human, no others; escalate_to_human
\* is the template's entry when the template has that key and targets
\* @utils.escalate otherwise; every template entry is kept as it stands.
C25_EscalateToHumanGuaranteed ==
    \A k \in DOMAIN rets :
        LET actions == rets[k].ret.reasoning.actions.v
            found == Lookup(parse_rules(rules_json),
                            <<"templates", "escalation", "reasoning", "actions">>)
            template == IF found.some THEN found.v ELSE EmptyMap
        IN /\ rets[k].ret.reasoning.actions.some
           /\ DOMAIN actions = DOMAIN template \cup {EscalateToHuman}
           /\ EscalateToHuman \notin DOMAIN template
              => actions[EscalateToHuman].target = <<"@utils.escalate">>
           /\ \A key \in DOMAIN template :
                 IsPlainAction(template[key])
                 => actions[key] = PlainAction(template[key])

\* a template that defines escalate_to_human with a target and description
\* of its own next to a second action
C25_Witness ==
    /\ Len(rets) = 1
    /\ DOMAIN rets[1].ret.reasoning.actions.v = {EscalateToHuman, <<"l", "o", "g">>}
    /\ rets[1].ret.reasoning.actions.v[EscalateToHuman]
           = [target |-> Handoff, description |-> Some(<<"Hand over.">>),
              with_params |-> None]
    /\ rets[1].ret.reasoning.actions.v[<<"l", "o", "g">>].target = Handoff

-----------------------------------------------------------------------------
(* Claims about the output text *)

Indentations ==
    {"    ", "        ", "            ", "                ", "                    "}

TopLevelLines(lines) == SelectSeq(lines, LAMBDA line : line[1] \notin Indentations)

\* the lines between the header of a section and the next top-level line
SectionLines(lines, header) ==
    LET at == CHOOSE i \in DOMAIN lines : lines[i] = header
        next == IF \E j \in (at + 1)..Len(lines) : lines[j][1] \notin Indentations
                THEN CHOOSE j \in (at + 1)..Len(lines) :
                        /\ lines[j][1] \notin Indentations
                        /\ \A h \in (at + 1)..(j - 1) : lines[h][1] \in Indentations
                ELSE Len(lines) + 1
    IN SubSeq(lines, at + 1, next - 1)

IsAscending(names) ==
    \A i \in 1..(Len(names) - 1) : StrLess(names[i], names[i + 1])

\* C26: the top-level lines of the text are system, config, variables (iff
\* the variable table has an entry), language, the first in ascending order
\* of the keys that name a connection section (if there is one), and the
\* keys that name a topic section in ascending order, so every start_agent
\* section comes before every topic section; the variables section lists
\* the names of the table in ascending order.
C26_SectionOrder ==
    \A k \in DOMAIN rets :
        LET nga == rets[k].arg
            lines == rets[k].ret
            connection_keys == {c \in nga.connections : StartsWith(c, ConnectionPrefix)}
            topic_keys == {t \in DOMAIN nga.topics :
                              StartsWith(t, StartAgentPrefix) \/ StartsWith(t, TopicKeyPrefix)}
            first_connection ==
                CHOOSE c \in connection_keys :
                    \A d \in connection_keys \ {c} : StrLess(c, d)
            top == TopLevelLines(lines)
            sections == [i \in DOMAIN top |-> SubSeq(top[i], 1, Len(top[i]) - 1)]
            fixed == IF DOMAIN nga.variables = {} THEN 3 ELSE 4
            connections == IF connection_keys = {} THEN 0 ELSE 1
            topics_at == fixed + connections
            names == [i \in DOMAIN SectionLines(lines, <<"variables:">>) |->
                         SectionLines(lines, <<"variables:">>)[i]]
            name_lines == SelectSeq(names, LAMBDA line : line[1] = "    ")
        IN /\ Len(top) >= fixed
           /\ SubSeq(top, 1, fixed)
                  = (IF DOMAIN nga.variables = {}
                     THEN <<<<"system:">>, <<"config:">>, <<"language:">>>>
                     ELSE <<<<"system:">>, <<"config:">>, <<"variables:">>,
                            <<"language:">>>>)
           /\ connection_keys # {} => sections[fixed + 1] = first_connection
           /\ Len(top) = topics_at + Cardinality(topic_keys)
           /\ {sections[i] : i \in (topics_at + 1)..Len(top)} = topic_keys
           /\ IsAscending(SubSeq(sections, topics_at + 1, Len(top)))
           /\ \A i, j \in (topics_at + 1)..Len(top) :
                 (StartsWith(sections[i], StartAgentPrefix)
                  /\ StartsWith(sections[j], TopicKeyPrefix)) => i < j
           /\ DOMAIN nga.variables # {}
              => /\ Len(name_lines) = Cardinality(DOMAIN nga.variables)
                 /\ \A i \in DOMAIN name_lines :
                       \E n \in DOMAIN nga.variables :
                           StartsWith(name_lines[i], <<"    ">> \o n \o <<":">>)
                 /\ \A i \in 1..(Len(name_lines) - 1) :
                       \E n, m \in DOMAIN nga.variables :
                           /\ StartsWith(name_lines[i], <<"    ">> \o n \o <<":">>)
                           /\ StartsWith(name_lines[i + 1], <<"    ">> \o m \o <<":">>)
                           /\ StrLess(n, m)

\* three variables, two connection keys and one key that names none, the
\* selector, two topics and a key that names no topic
C26_Witness ==
    /\ Len(rets) = 1
    /\ Cardinality(DOMAIN rets[1].arg.variables) = 3
    /\ rets[1].arg.connections = ConnectionKeys
    /\ DOMAIN rets[1].arg.topics = TopicKeys
    /\ TopLevelLines(rets[1].ret)
           = <<<<"system:">>, <<"config:">>, <<"variables:">>, <<"language:">>,
               ConnectionMessaging \o <<":">>,
               SelectorKey \o <<":">>,
               TopicKeyPrefix \o <<"a", ":">>,
               TopicKeyPrefix \o NEscalation \o <<":">>>>

\* the literal the rules resolve a boolean to
ResolvedBoolean(value, rules) ==
    LET supplied == Lookup(rules, <<"output_format", "action_definition", "boolean_format",
                                    IF value THEN "true_val" ELSE "false_val">>)
    IN IF supplied.some THEN supplied.v
       ELSE IF value THEN <<"True">> ELSE <<"False">>

\* C27: every flag line of an action and of its inputs ends in the literal
\* the rules resolve the flag to: the boolean-format text of the rules when
\* they supply one, True or False otherwise.
C27_FlagsUseResolvedLiteral ==
    \A k \in DOMAIN rets :
        LET nga == rets[k].arg
            rules == parse_rules(rules_json)
            Emitted(line) == \E i \in DOMAIN rets[k].ret : rets[k].ret[i] = line
        IN \A t \in DOMAIN nga.topics :
              nga.topics[t].actions.some
              => \A a \in DOMAIN nga.topics[t].actions.v :
                    LET action == nga.topics[t].actions.v[a]
                    IN /\ Emitted(<<"            ", "require_user_confirmation: ">>
                                  \o ResolvedBoolean(action.require_user_confirmation,
                                                     rules))
                       /\ Emitted(<<"            ", "include_in_progress_indicator: ">>
                                  \o ResolvedBoolean(action.include_in_progress_indicator,
                                                     rules))
                       /\ action.inputs.some
                          => \A n \in DOMAIN action.inputs.v :
                                /\ Emitted(<<"                    ", "is_required: ">>
                                       \o ResolvedBoolean(action.inputs.v[n].is_required,
                                                          rules))
                                /\ Emitted(<<"                    ", "is_user_input: ">>
                                       \o ResolvedBoolean(action.inputs.v[n].is_user_input,
                                                          rules))

FreeTextKeys == {"instructions: ", "description: ", "progress_indicator_message: "}

\* C28: with no rules, no line of the text that holds a free-text field
\* holds a legacy placeholder.
C28_NoLegacyPlaceholderEmitted ==
    \A k \in DOMAIN rets :
        NoRulesInForce
        => \A i \in DOMAIN rets[k].ret :
              (Len(rets[k].ret[i]) >= 2 /\ rets[k].ret[i][2] \in FreeTextKeys)
              => ~LegacyLeft(rets[k].ret[i])

-----------------------------------------------------------------------------
(* Claims about the report and the conversion of one input *)

\* C29: for an input with plugins, the report has a topic for a plugin
\* exactly when the conversion has a topic under the plugin's key, and the
\* action names of a reported topic are, once sanitized, the keys of that
\* topic's detailed action map.
C29_ReportAgreesWithConversion ==
    (/\ Converted /\ result.v.ok /\ InputDoc.plugins.some
     /\ Len(rets) = 1 /\ rets[1].ret.ok)
    => LET report == rets[1].ret.topics
           plugins == InputDoc.plugins.v
           topic_key(p) == TopicKeyPrefix \o PluginTopicName(plugins[p])
           raw_name(p) == UnwrapOr(plugins[p].local_dev_name, plugins[p].name)
       IN \A p \in DOMAIN plugins :
             /\ (\E k \in DOMAIN report : report[k].name = raw_name(p))
                <=> topic_key(p) \in DOMAIN OutTopics
             /\ \A k \in DOMAIN report :
                   (report[k].name = raw_name(p) /\ topic_key(p) \in DOMAIN OutTopics)
                   => /\ OutTopics[topic_key(p)].actions.some
                      /\ {sanitize_action_name(Some(report[k].actions[a].name)) :
                             a \in DOMAIN report[k].actions}
                         = DOMAIN OutTopics[topic_key(p)].actions.v

-----------------------------------------------------------------------------
(* Claims about the two identifier heuristics *)

\* C30: on every string the serializer's test answers readable exactly
\* when the analyzer's test does not answer record identifier.
C30_HeuristicsAreComplementary ==
    Len(rets) = 2 => (rets[2].ret <=> ~rets[1].ret)

====
